---- MODULE Spec2Model ----
(***************************************************************************)
(* Gift Genie: the retrieval / refinement / matching pipeline.             *)
(*                                                                         *)
(*   SpecRefine   IntelligentQueryRefinementEngine.refine_search_with_     *)
(*                retries and its caller generate_recommendations_with_    *)
(*                retry                                                    *)
(*   SpecSearch   NaverShoppingClient.search_products_multi_sort           *)
(*   SpecResolve  NaverGiftRecommendationEngine.generate_naver_            *)
(*                recommendations and _smart_integrate_recommendations     *)
(*   SpecCalls    the same call, with every outbound call issued and       *)
(*                awaited                                                  *)
(*   SpecRetry    the retry loop over search_products_multi_sort           *)
(*   SpecKeywords _extract_search_keywords_from_ai_rec and                 *)
(*                _optimize_search_query                                   *)
(*   SpecSignature  _create_product_signature in the deduplication         *)
(*   SpecProcess  NaverShoppingClient._process_search_results over the     *)
(*                records of one response                                  *)
(*   SpecMarket   the keywords of each attempt of refine_search_with_      *)
(*                retries: refinement and market insights                  *)
(*                                                                         *)
(* Scores are kept in thousandths (1000 = 1.0).  None is Python's None.    *)
(***************************************************************************)
EXTENDS Integers, Sequences, FiniteSets, TLC

VARIABLES
    \* ---- refine_search_with_retries and its caller
    rpc,             \* position in the retry loop / the caller
    attempt_num,     \* loop variable of `for attempt_num in range(1, 6)`
    session,         \* QueryRefinementSession
    best_products,   \* local best_products
    best_attempt,    \* local best_attempt
    search_calls,    \* attempt numbers for which search_function was awaited
    response         \* what generate_recommendations_with_retry produced

VARIABLES
    \* ---- NaverShoppingClient.search_products_multi_sort
    spc,             \* position in search_products_multi_sort
    enabled,         \* self.enabled: both credentials are configured
    keywords,        \* argument keywords
    budget_max_krw,  \* argument budget_max_krw
    display,         \* argument display
    sort_idx,        \* index into sort_methods of the next search_products call
    all_products,    \* local all_products
    result,          \* the list search_products_multi_sort returns
    raw_received,    \* number of raw records the API has returned so far
    query,           \* local query of search_products
    data_items       \* data["items"] handed to _process_search_results

searchVars == <<spc, enabled, keywords, budget_max_krw, display, sort_idx,
                all_products, result, raw_received, query, data_items>>

VARIABLES
    \* ---- generate_naver_recommendations / _smart_integrate_recommendations
    gpc,                      \* position in generate_naver_recommendations
    request,                  \* the request: currency and budget_max
    openai_key,               \* OPENAI_API_KEY is set
    ai_recommendations,       \* ai_response.recommendations (the intents)
    intent_idx,               \* loop variable i of the current loop (0-based)
    all_naver_products,       \* the candidate pool
    used_product_ids,         \* the consumed set of _smart_integrate_recommendations
    enhanced_recommendations, \* the list _smart_integrate_recommendations builds
    relevant_products,        \* local relevant_products, as indices of the pool
    gpt_result,               \* local result of _gpt_validate_and_select_product
    in_flight,                \* the outbound calls that are awaited
    returned                  \* the outbound calls that have returned

resolveVars == <<gpc, request, openai_key, ai_recommendations, intent_idx,
                 all_naver_products, used_product_ids, enhanced_recommendations,
                 relevant_products, gpt_result, in_flight, returned>>

VARIABLES
    \* ---- refine_search_with_retries: the keywords of an attempt
    original_keywords,  \* argument original_keywords
    gift_context,       \* argument gift_context: recipient_age, recipient_gender
    refined_keywords,   \* local refined_keywords
    market_insights     \* local market_insights

marketVars == <<original_keywords, gift_context, refined_keywords, market_insights>>

refineVars == <<rpc, attempt_num, session, best_products, best_attempt,
                search_calls, response,
                original_keywords, gift_context, refined_keywords, market_insights>>

vars == <<rpc, attempt_num, session, best_products, best_attempt,
          search_calls, response,
          spc, enabled, keywords, budget_max_krw, display, sort_idx,
          all_products, result, raw_received, query, data_items,
          gpc, request, openai_key, ai_recommendations, intent_idx,
          all_naver_products, used_product_ids, enhanced_recommendations,
          relevant_products, gpt_result, in_flight, returned,
          original_keywords, gift_context, refined_keywords, market_insights>>

None == -1

Min(a, b) == IF a <= b THEN a ELSE b

Max(a, b) == IF a >= b THEN a ELSE b

----------------------------------------------------------------------------
(* Bounds *)

\* search_function returns between 0 and MaxFound products
MaxFound == 4

\* at most MaxItems raw records arrive over the three sort calls of one search
MaxItems == 4

----------------------------------------------------------------------------
(* naver_recommendation_engine.py: text of titles, brands and sellers     *)
(*                                                                         *)
(* A title is a sequence of words separated by single blanks.  Word[w]     *)
(* gives, for each word of the vocabulary, what the code reads from it:    *)
(*   len    its number of characters                                       *)
(*   core   its number of characters once punctuation is replaced by       *)
(*          blanks (signature)                                             *)
(*   rank   its position in Python's string order                          *)
(*   stop   it is one of stop_words                                        *)
(*   marks  the positive/negative indicators it contains                   *)
(*   deny   it contains one of exclude_keywords                            *)
(* The words stand for: jeongpum 정품, gongsik 공식, museon 무선, ieopon 이어폰,  *)
(* museonieopon 무선이어폰, beulluteuseu 블루투스, hedeuset 헤드셋,              *)
(* noijeukaenseulling 노이즈캔슬링, beullaek 블랙, hwaiteu 화이트,               *)
(* jubangyongpum 주방용품, seonmul 선물, chucheon 추천, sangpum 상품,           *)
(* junggo 중고, gyeonjeokseo 견적서, gwallyeon 관련, peurimieom 프리미엄,       *)
(* saengil 생일, teukbyeol 특별, wihan 위한, #1..#5 the numbering of          *)
(* simulated titles.                                                       *)
(***************************************************************************)

W(len, core, rank, stop, marks, deny) ==
    [len |-> len, core |-> core, rank |-> rank, stop |-> stop,
     marks |-> marks, deny |-> deny]

Vocabulary ==
    { "#1", "#2", "#3", "#4", "#5", "gyeonjeokseo", "gongsik",
      "gwallyeon", "noijeukaenseulling", "museon", "museonieopon",
      "beullaek", "beulluteuseu", "sangpum", "saengil", "seonmul",
      "wihan", "ieopon", "jeongpum", "jubangyongpum", "junggo", "chucheon",
      "teukbyeol", "peurimieom", "hedeuset", "hwaiteu" }

Word ==
    [w \in Vocabulary |->
       CASE w = "#1" -> W(2, 1, 1, FALSE, {}, FALSE)
         [] w = "#2" -> W(2, 1, 2, FALSE, {}, FALSE)
         [] w = "#3" -> W(2, 1, 3, FALSE, {}, FALSE)
         [] w = "#4" -> W(2, 1, 4, FALSE, {}, FALSE)
         [] w = "#5" -> W(2, 1, 5, FALSE, {}, FALSE)
         [] w = "gyeonjeokseo" -> W(3, 3, 6, FALSE, {"gyeonjeok"}, TRUE)
         [] w = "gongsik" -> W(2, 2, 7, TRUE, {"gongsik"}, FALSE)
         [] w = "gwallyeon" -> W(2, 2, 8, FALSE, {}, FALSE)
         [] w = "noijeukaenseulling" -> W(6, 6, 9, FALSE, {}, FALSE)
         [] w = "museon" -> W(2, 2, 10, FALSE, {}, FALSE)
         [] w = "museonieopon" -> W(5, 5, 11, FALSE, {}, FALSE)
         [] w = "beullaek" -> W(2, 2, 12, TRUE, {}, FALSE)
         [] w = "beulluteuseu" -> W(4, 4, 13, FALSE, {}, FALSE)
         [] w = "sangpum" -> W(2, 2, 14, FALSE, {}, FALSE)
         [] w = "saengil" -> W(2, 2, 15, FALSE, {}, FALSE)
         [] w = "seonmul" -> W(2, 2, 16, FALSE, {}, FALSE)
         [] w = "wihan" -> W(2, 2, 17, FALSE, {}, FALSE)
         [] w = "ieopon" -> W(3, 3, 18, FALSE, {}, FALSE)
         [] w = "jeongpum" -> W(2, 2, 19, TRUE, {"jeongpum"}, FALSE)
         [] w = "jubangyongpum" -> W(4, 4, 20, FALSE, {}, FALSE)
         [] w = "junggo" -> W(2, 2, 21, FALSE, {"junggo"}, FALSE)
         [] w = "chucheon" -> W(2, 2, 22, TRUE, {}, FALSE)
         [] w = "teukbyeol" -> W(2, 2, 23, FALSE, {}, FALSE)
         [] w = "peurimieom" -> W(4, 4, 24, FALSE, {"peurimieom"}, FALSE)
         [] w = "hedeuset" -> W(3, 3, 25, FALSE, {}, FALSE)
         [] w = "hwaiteu" -> W(3, 3, 26, TRUE, {}, FALSE)]

\* positive_indicators and negative_indicators, in thousandths
IndicatorBoost(m) ==
    CASE m = "jeongpum" -> 200
      [] m = "gongsik" -> 150
      [] m = "peurimieom" -> 50
      [] m = "junggo" -> 0 - 300
      [] m = "gyeonjeok" -> 0 - 300

RECURSIVE SumBoost(_)
SumBoost(S) ==
    IF S = {} THEN 0
    ELSE LET m == CHOOSE x \in S : TRUE
         IN  IndicatorBoost(m) + SumBoost(S \ {m})

RECURSIVE SumLen(_)
SumLen(t) == IF t = <<>> THEN 0 ELSE Word[Head(t)].len + SumLen(Tail(t))

\* len(title): the words and the blanks between them
TitleLen(t) == IF t = <<>> THEN 0 ELSE SumLen(t) + Len(t) - 1

\* the indicators that occur in the title (`indicator in title_clean`)
TitleMarks(t) == UNION { Word[t[i]].marks : i \in 1..Len(t) }

Clamp01(x) == Min(1000, Max(0, x))

\* _is_low_quality_product
IsLowQualityProduct(t) ==
    \/ \E i \in 1..Len(t) : Word[t[i]].deny
    \/ TitleLen(t) < 5

\* brand.lower().strip() / re.sub(r'[^\w가-힣]', '', brand.lower())
BrandLower(b) == IF b = "Samsung" THEN "samsung" ELSE b

Brands == { "", "Samsung", "samsung", "coway", "ikea",
            "brand1", "brand2", "brand3", "brand4", "brand5" }

\* _calculate_brand_trust_score
BrandTrustScore(b) ==
    IF b = "" THEN 300
    ELSE CASE BrandLower(b) = "samsung" -> 1000
           [] BrandLower(b) = "coway" -> 800
           [] BrandLower(b) = "ikea" -> 600
           [] OTHER -> 500

\* _calculate_mall_trust_score
MallTrustScore(m) ==
    IF m = "" THEN 300
    ELSE CASE m = "naver" -> 1000
           [] m = "oliveyoung" -> 800
           [] m = "tmon" -> 600
           [] OTHER -> 400

\* _calculate_title_quality_score
TitleQualityScore(t) ==
    IF t = <<>> \/ TitleLen(t) < 5 THEN 100
    ELSE LET base == 500 + SumBoost(TitleMarks(t))
             length == TitleLen(t)
             adj == IF length < 10 THEN 0 - 200
                    ELSE IF length > 100 THEN 0 - 100
                    ELSE IF 20 <= length /\ length <= 60 THEN 100
                    ELSE 0
         IN  Clamp01(base + adj)

\* _calculate_price_reasonableness_score
PriceReasonablenessScore(price) ==
    IF price <= 0 THEN 0
    ELSE IF price < 5000 THEN 300
    ELSE IF price <= 10000 THEN 600
    ELSE IF price <= 100000 THEN 800
    ELSE IF price <= 500000 THEN 900
    ELSE IF price <= 1000000 THEN 700
    ELSE 500

\* calculate_product_quality_score: 0.4 brand + 0.3 mall + 0.2 title + 0.1 price
CalculateProductQualityScore(p) ==
    Clamp01((4 * BrandTrustScore(p.brand) + 3 * MallTrustScore(p.mallName)
             + 2 * TitleQualityScore(p.title)
             + PriceReasonablenessScore(p.lprice)) \div 10)

\* insert word w into a sequence that is sorted by rank
RECURSIVE InsertWord(_, _)
InsertWord(w, sorted) ==
    IF sorted = <<>> THEN <<w>>
    ELSE IF Word[w].rank < Word[Head(sorted)].rank THEN <<w>> \o sorted
    ELSE <<Head(sorted)>> \o InsertWord(w, Tail(sorted))

\* sorted(core_words)
RECURSIVE SortWords(_)
SortWords(ws) == IF ws = <<>> THEN <<>> ELSE InsertWord(Head(ws), SortWords(Tail(ws)))

\* core_words: the words of at least 3 characters that are no stop words
IsCoreWordMutant(w) == ~Word[w].stop

IsCoreWord(w) == Word[w].core >= 3 /\ ~Word[w].stop

CoreWords(t) == SelectSeq(t, IsCoreWord)

FirstN(seq, n) == SubSeq(seq, 1, Min(n, Len(seq)))

\* _create_product_signature: the pieces that are joined with "_"
CreateProductSignature(p) ==
    LET signature_words == SortWords(FirstN(CoreWords(p.title), 5))
    IN  IF p.brand # ""
        THEN <<BrandLower(p.brand)>>
               \o (IF signature_words = <<>> THEN <<"">> ELSE signature_words)
        ELSE signature_words

----------------------------------------------------------------------------
(* naver_recommendation_engine.py: NaverShoppingClient                     *)

sort_methods == << "sim", "asc", "dsc" >>

\* NaverProductResult; simulated is a history field that records whether
\* _simulate_search made the product
Product(title, link, lprice, mall, pid, brand, cat3, simulated) ==
    [title |-> title, link |-> link, lprice |-> lprice, mallName |-> mall,
     productId |-> pid, brand |-> brand, category3 |-> cat3,
     hprice |-> lprice, productType |-> 1, image |-> "",
     ai_recommendation_index |-> None, search_method |-> "None",
     quality_score |-> None, simulated |-> simulated]

\* a record of the API response, a JSON object; lprice is the parsed number,
\* or "empty" / "bad" for a price string that is empty / not a number; hprice
\* is the empty string and productType is 1 unless stated otherwise
Item(title, link, lprice, mall, pid, brand, cat3) ==
    [shape |-> "object",
     title |-> title, link |-> link, lprice |-> lprice, mallName |-> mall,
     productId |-> pid, brand |-> brand, category3 |-> cat3,
     hprice |-> [kind |-> "empty"], productType |-> [kind |-> "num", val |-> 1],
     image |-> "image_" \o pid]

PriceOf(n) == [kind |-> "num", val |-> n]

\* the records the commerce API may return
ItemA ==
    Item(<<"museonieopon", "beulluteuseu">>, "link1", PriceOf(50000),
         "naver", "p1", "samsung", "ieopon")

ItemB ==
    Item(<<"jeongpum", "gongsik", "museonieopon", "noijeukaenseulling",
           "hedeuset", "beullaek">>, "link2", PriceOf(150000),
         "naver", "p2", "Samsung", "ieopon")

ItemC ==
    Item(<<"ieopon", "hedeuset">>, "link3", PriceOf(60000),
         "tmon", "p3", "samsung", "ieopon")

ItemD ==
    Item(<<"beulluteuseu", "ieopon", "museon">>, "link4", PriceOf(70000),
         "", "p4", "samsung", "ieopon")

\* another listing (other productId) of the page of ItemB
ItemE ==
    Item(<<"museonieopon", "hedeuset", "noijeukaenseulling", "hwaiteu">>,
         "link2", PriceOf(90000), "oliveyoung", "p5", "samsung", "ieopon")

ItemF ==
    Item(<<"jubangyongpum", "seonmul">>, "link6", PriceOf(10000),
         "other", "p6", "ikea", "jubang")

ItemG ==
    Item(<<"junggo", "ieopon", "museon">>, "link7", PriceOf(150001),
         "other", "p7", "", "ieopon")

ItemH ==
    Item(<<"gyeonjeokseo", "jubangyongpum">>, "link8", [kind |-> "bad"],
         "other", "p8", "coway", "jubang")

Catalog == { ItemA, ItemB, ItemC, ItemD, ItemE, ItemF, ItemG, ItemH }

\* the arguments of one call: (keywords, budget_max_krw, display)
CallConfigs ==
    { [keywords |-> <<"ieopon">>, budget |-> 150000, display |-> 35],
      [keywords |-> <<>>, budget |-> 29999, display |-> 20] }

\* budget_min_krw = max(10000, budget_max_krw // 3)
BudgetMin(budget) == Max(10000, budget \div 3)

\* variant of the budget check that forgets the upper limit
InBudgetMutant(lprice, budget) == ~(lprice < BudgetMin(budget))

\* the budget check of _process_search_results (line 237)
InBudget(lprice, budget) == ~(lprice < BudgetMin(budget) \/ lprice > budget)

\* lines 250-257: hprice is read if it is a string of digits, else it is lprice
HighPrice(item) ==
    IF item.hprice.kind = "num" THEN item.hprice.val ELSE item.lprice.val

\* lines 260-263: int(item.get("productType", 1)); a ValueError gives 1
ProductTypeOf(item) ==
    IF item.productType.kind = "num" THEN item.productType.val ELSE 1

\* int(None) raises TypeError, which the inner `except ValueError` does not
\* catch: the handler of lines 283-285 skips the record
ProductTypeSkips(item) == item.productType.kind = "null"

\* _process_search_results: the record is kept
KeepsItem(item, budget) ==
    /\ item.lprice.kind = "num"
    /\ InBudget(item.lprice.val, budget)
    /\ ~IsLowQualityProduct(item.title)
    /\ ~ProductTypeSkips(item)

\* item.get on an entry of data["items"] that is no JSON object raises
\* AttributeError, which `except (ValueError, TypeError)` does not catch
ProcessRaises(items) == \E i \in 1..Len(items) : items[i].shape # "object"

\* _process_search_results
RECURSIVE ProcessSearchResults(_, _)
ProcessSearchResults(items, budget) ==
    IF items = <<>> THEN <<>>
    ELSE LET item == Head(items)
             rest == ProcessSearchResults(Tail(items), budget)
         IN  IF KeepsItem(item, budget)
             THEN <<[Product(item.title, item.link, item.lprice.val, item.mallName,
                             item.productId, item.brand, item.category3, FALSE)
                       EXCEPT !.hprice = HighPrice(item),
                              !.productType = ProductTypeOf(item),
                              !.image = item.image]>>
                    \o rest
             ELSE rest

SimNumber == << "#1", "#2", "#3", "#4", "#5" >>

SimBrand == << "brand1", "brand2", "brand3", "brand4", "brand5" >>

SimMall == << "mall1", "mall2", "mall3", "mall4", "mall5" >>

SimId == << "prod_1000", "prod_1001", "prod_1002", "prod_1003", "prod_1004" >>

SimLink == << "product/1000", "product/1001", "product/1002", "product/1003",
              "product/1004" >>

\* _simulate_search(keywords, budget_max_krw, display)
SimulateSearch(kws, budget, disp) ==
    LET keyword == IF kws # <<>> THEN kws[1] ELSE "seonmul"
    IN  [j \in 1..Min(disp, 5) |->
           [Product(<<keyword, "chucheon", "sangpum", SimNumber[j]>>,
                    SimLink[j], (budget * j) \div (disp + 1), SimMall[j],
                    SimId[j], SimBrand[j], keyword, TRUE)
              EXCEPT !.hprice = (budget * j) \div (disp + 1) + 10000,
                     !.image = "unsplash_" \o keyword]]

\* search_count = display // len(sort_methods) + (1 if sort_method == "sim" else 0)
SearchCount(disp, sort_method) ==
    disp \div Len(sort_methods) + (IF sort_method = "sim" THEN 1 ELSE 0)

\* product.search_method = sort_method for every product of the list
TagSearchMethod(products, sort_method) ==
    [i \in 1..Len(products) |-> [products[i] EXCEPT !.search_method = sort_method]]

\* brand_category_key, f"{brand}_{category3}"; no brand or category of the
\* model holds "_", so the pair determines the key and the key the pair
BrandCategoryKey(p) == <<p.brand, p.category3>>

\* how many products of the list have the brand/category key of p
RECURSIVE CountKey(_, _)
CountKey(list, key) ==
    IF list = <<>> THEN 0
    ELSE (IF BrandCategoryKey(Head(list)) = key THEN 1 ELSE 0) + CountKey(Tail(list), key)

\* variant of the diversity cap that lets one product more through
DIVERSITY_CAP_Mutant == 3 + 1

\* the diversity cap (line 116): `if brand_category_count >= 3`
DIVERSITY_CAP == 3

\* variant of the loop of lines 98-121 without the signature test
RECURSIVE DeduplicateMutant(_, _)
DeduplicateMutant(unique, rest) ==
    IF rest = <<>> THEN unique
    ELSE LET product == Head(rest)
             seen_product_ids == { unique[i].productId : i \in 1..Len(unique) }
         IN  IF product.productId \in seen_product_ids
             THEN DeduplicateMutant(unique, Tail(rest))
             ELSE IF CountKey(unique, BrandCategoryKey(product)) >= DIVERSITY_CAP
             THEN DeduplicateMutant(unique, Tail(rest))
             ELSE DeduplicateMutant(Append(unique, product), Tail(rest))

\* lines 98-121: the loop that builds unique_products
RECURSIVE Deduplicate(_, _)
Deduplicate(unique, rest) ==
    IF rest = <<>> THEN unique
    ELSE LET product == Head(rest)
             seen_product_ids == { unique[i].productId : i \in 1..Len(unique) }
             seen_product_signatures ==
                 { CreateProductSignature(unique[i]) : i \in 1..Len(unique) }
         IN  IF product.productId \in seen_product_ids
             THEN Deduplicate(unique, Tail(rest))
             ELSE IF CreateProductSignature(product) \in seen_product_signatures
             THEN Deduplicate(unique, Tail(rest))
             ELSE IF CountKey(unique, BrandCategoryKey(product)) >= DIVERSITY_CAP
             THEN Deduplicate(unique, Tail(rest))
             ELSE Deduplicate(Append(unique, product), Tail(rest))

SIM_BONUS == 100

\* lines 129-138: the quality score and the bonus of the relevance sort
Scored(p) ==
    [p EXCEPT !.quality_score =
        CalculateProductQualityScore(p)
          + (IF p.search_method = "sim" THEN SIM_BONUS ELSE 0)]

\* insert p into a list sorted by non-increasing quality_score, after the
\* products with an equal score (list.sort is stable)
RECURSIVE InsertByScore(_, _)
InsertByScore(p, sorted) ==
    IF sorted = <<>> THEN <<p>>
    ELSE IF p.quality_score > Head(sorted).quality_score THEN <<p>> \o sorted
    ELSE <<Head(sorted)>> \o InsertByScore(p, Tail(sorted))

\* variant of the sort that leaves the list as it is
SortByScoreMutant(list) == list

\* quality_scored_products.sort(key=quality_score, reverse=True)
RECURSIVE SortByScore(_)
SortByScore(list) ==
    IF list = <<>> THEN <<>>
    ELSE InsertByScore(list[Len(list)], SortByScore(SubSeq(list, 1, Len(list) - 1)))

\* lines 97-147 of search_products_multi_sort
DedupScoreSort(products) ==
    LET unique_products == Deduplicate(<<>>, products)
    IN  SortByScore([i \in 1..Len(unique_products) |-> Scored(unique_products[i])])

\* the words of the "핵심 제품명" list of _optimize_search_query that the
\* model's keywords can hold: 이어폰, 주방용품, 선물세트, 전자기기, 생활용품, 키친용품
PriorityProductWords ==
    { "ieopon", "jubangyongpum", "seonmulseteu", "jeonjagigi",
      "saenghwalyongpum", "kichinyongpum" }

\* the words of its "수식어" list: 프리미엄, 고급, 무선, 디지털
ModifierWords == { "peurimieom", "gogeup", "museon", "dijiteol" }

\* len(keyword_clean): the keywords outside the vocabulary are values of the
\* keyword mapping and of category_keywords, of two characters or more
KeywordLen(w) == IF w \in Vocabulary THEN Word[w].len ELSE 2

\* the loop of lines 331-349
PriorityKeywords(kws) ==
    LET Keep(w) == \/ w \in PriorityProductWords
                   \/ w \notin ModifierWords /\ KeywordLen(w) >= 2
    IN  SelectSeq(kws, Keep)

ModifierKeywords(kws) ==
    LET Keep(w) == w \notin PriorityProductWords /\ w \in ModifierWords
    IN  SelectSeq(kws, Keep)

\* naver_optimized_patterns[main_key][0]; 게임 is the one key whose first
\* pattern is another word (게임기)
NaverOptimizedPattern(main_key) ==
    CASE main_key = "geim" -> "geimgi"
      [] OTHER -> main_key

\* _optimize_search_query
OptimizeSearchQuery(kws) ==
    IF kws = <<>> THEN "seonmul"
    ELSE IF PriorityKeywords(kws) # <<>>
         THEN NaverOptimizedPattern(PriorityKeywords(kws)[1])
         ELSE IF ModifierKeywords(kws) # <<>> THEN ModifierKeywords(kws)[1]
              ELSE "seonmul"

\* an outbound call: the search_products request of intent i (0-based) with
\* the k-th sort order, and the call to the judge for intent i
SearchCall(i, k) == [kind |-> "search", intent |-> i, sort |-> sort_methods[k]]

JudgeCall(i) == [kind |-> "judge", intent |-> i, sort |-> "None"]

\* the awaited calls once call c has returned
CallDoneMutant(calls, c) == calls

CallDone(calls, c) == calls \ {c}

\* the judge has not been asked
NoJudge == [kind |-> "nocall", val |-> 0, text |-> ""]

IdleResolve ==
    /\ gpc = "idle"
    /\ request = [currency |-> "KRW", budget_max |-> 0]
    /\ openai_key = FALSE
    /\ ai_recommendations = <<>>
    /\ intent_idx = 0
    /\ all_naver_products = <<>>
    /\ used_product_ids = {}
    /\ enhanced_recommendations = <<>>
    /\ relevant_products = <<>>
    /\ gpt_result = NoJudge
    /\ in_flight = {}
    /\ returned = {}

IdleSearch ==
    /\ spc = "idle"
    /\ enabled = FALSE
    /\ keywords = <<>>
    /\ budget_max_krw = 0
    /\ display = 0
    /\ sort_idx = 1
    /\ all_products = <<>>
    /\ result = <<>>
    /\ raw_received = 0
    /\ data_items = <<>>
    /\ query = ""

\* the responses of at most n records
Responses(n) == UNION { [1..k -> Catalog] : k \in 0..n }

InitClient ==
    /\ spc = "start"
    /\ enabled \in BOOLEAN
    /\ \E cfg \in CallConfigs :
          /\ keywords = cfg.keywords
          /\ budget_max_krw = cfg.budget
          /\ display = cfg.display
    /\ sort_idx = 1
    /\ all_products = <<>>
    /\ result = <<>>
    /\ raw_received = 0
    /\ data_items = <<>>
    /\ query = ""

\* lines 71-72: without credentials the search is simulated
MultiSortSimulated ==
    /\ UNCHANGED <<refineVars, resolveVars>>
    /\ spc = "start"
    /\ ~enabled
    /\ result' = SimulateSearch(keywords, budget_max_krw, display)
    /\ spc' = "done"
    /\ UNCHANGED <<enabled, keywords, budget_max_krw, display, sort_idx,
                   all_products, raw_received, query,
                   data_items>>

\* lines 74-77
MultiSortBegin ==
    /\ UNCHANGED <<refineVars, resolveVars>>
    /\ spc = "start"
    /\ enabled
    /\ all_products' = <<>>
    /\ sort_idx' = 1
    /\ spc' = "searching"
    /\ UNCHANGED <<enabled, keywords, budget_max_krw, display, result,
                   raw_received, query,
                   data_items>>

\* lines 86-91 for the list one search_products call returned
Collect(products) ==
    /\ all_products' = all_products \o TagSearchMethod(products, sort_methods[sort_idx])
    /\ sort_idx' = sort_idx + 1
    /\ spc' = IF sort_idx < Len(sort_methods) THEN "searching" ELSE "collected"
    /\ query' = OptimizeSearchQuery(keywords)
    /\ UNCHANGED <<enabled, keywords, budget_max_krw, display, result>>

\* search_products: the API answers 200 with some records
SearchProductsOk ==
    /\ UNCHANGED <<refineVars, resolveVars>>
    /\ spc = "searching"
    /\ \E items \in Responses(MaxItems - raw_received) :
          /\ raw_received' = raw_received + Len(items)
          /\ Collect(ProcessSearchResults(items, budget_max_krw))
    /\ UNCHANGED data_items

\* search_products: the API answers with a status other than 200
SearchProductsHttpError ==
    /\ UNCHANGED <<refineVars, resolveVars>>
    /\ spc = "searching"
    /\ Collect(SimulateSearch(keywords, budget_max_krw,
                              SearchCount(display, sort_methods[sort_idx])))
    /\ UNCHANGED <<raw_received, data_items>>

\* search_products: the request raises (timeout, connection error)
SearchProductsException ==
    /\ UNCHANGED <<refineVars, resolveVars>>
    /\ spc = "searching"
    /\ Collect(SimulateSearch(keywords, budget_max_krw,
                              SearchCount(display, sort_methods[sort_idx])))
    /\ UNCHANGED <<raw_received, data_items>>

\* lines 97-147
MultiSortFinish ==
    /\ UNCHANGED <<refineVars, resolveVars>>
    /\ spc = "collected"
    /\ result' = DedupScoreSort(all_products)
    /\ spc' = "done"
    /\ UNCHANGED <<enabled, keywords, budget_max_krw, display, sort_idx,
                   all_products, raw_received, query,
                   data_items>>

NextSearch ==
    \/ MultiSortSimulated
    \/ MultiSortBegin
    \/ SearchProductsOk
    \/ SearchProductsHttpError
    \/ SearchProductsException
    \/ MultiSortFinish

----------------------------------------------------------------------------
(* intelligent_query_refinement.py *)

MAX_RETRY_ATTEMPTS == 5

MIN_PRODUCTS_THRESHOLD == 3

refinement_strategies ==
    << "synonym_expansion", "category_broadening", "market_research",
       "demographic_adaptation", "budget_alternative" >>

\* variant of the strategy choice that indexes with attempt_num for
\* attempt_num - 1
StrategyOfMutant(n) == refinement_strategies[Min(n, Len(refinement_strategies) - 1) + 1]

\* strategy = self.refinement_strategies[min(attempt_num - 1, len - 1)]
StrategyOf(n) == refinement_strategies[Min(n - 1, Len(refinement_strategies) - 1) + 1]

\* variant of the success test with > for >=
IsSufficientMutant(n) == n > MIN_PRODUCTS_THRESHOLD

\* line 163: `if products_count >= MIN_PRODUCTS_THRESHOLD`
IsSufficient(n) == n >= MIN_PRODUCTS_THRESHOLD

\* variant of the improvement test with >= for >
ImprovesBestMutant(n, best) == n >= Len(best)

\* line 170: `elif products_count > len(best_products)`
ImprovesBest(n, best) == n > Len(best)

\* the list a search returned in attempt k: n products, tagged by the attempt
FoundList(k, n) == [i \in 1..n |-> <<k, i>>]

\* variant of the record of the normal path that, like the record of the
\* except clause, counts no product
AttemptMutant(k, n) ==
    [attempt_number |-> k, products_found |-> 0,
     success |-> (n >= MIN_PRODUCTS_THRESHOLD),
     refinement_strategy |-> StrategyOf(k), failure_reason |-> "None"]

\* QueryRefinementAttempt built on the normal path (lines 146-156)
Attempt(k, n) ==
    [attempt_number |-> k, products_found |-> n,
     success |-> (n >= MIN_PRODUCTS_THRESHOLD),
     refinement_strategy |-> StrategyOf(k), failure_reason |-> "None"]

\* variant of the record of the except clause that reports a success
FailedAttemptMutant(k, why) ==
    [attempt_number |-> k, products_found |-> 0, success |-> TRUE,
     refinement_strategy |-> StrategyOf(k), failure_reason |-> why]

\* QueryRefinementAttempt built in the except clause (lines 185-195)
FailedAttempt(k, why) ==
    [attempt_number |-> k, products_found |-> 0, success |-> FALSE,
     refinement_strategy |-> StrategyOf(k), failure_reason |-> why]

NoAttempt == [attempt_number |-> None]

\* market_insights = None
NoInsights == [present |-> FALSE, suggested_products |-> <<>>, trending_keywords |-> <<>>]

\* no keyword has been handed to the refinement loop
IdleMarket ==
    /\ original_keywords = <<>>
    /\ gift_context = [recipient_age |-> [type |-> "int", val |-> 0],
                       recipient_gender |-> ""]
    /\ refined_keywords = <<>>
    /\ market_insights = NoInsights

IdleRefine ==
    /\ IdleMarket
    /\ rpc = "idle"
    /\ attempt_num = 1
    /\ session = [attempts |-> <<>>, final_success |-> FALSE,
                  total_products_found |-> 0, best_attempt |-> NoAttempt]
    /\ best_products = <<>>
    /\ best_attempt = NoAttempt
    /\ search_calls = <<>>
    /\ response = [outcome |-> "pending", success |-> FALSE, recommendations |-> "none"]

InitRefine ==
    /\ IdleMarket
    /\ rpc = "caller"
    /\ attempt_num = 1
    /\ session = [attempts |-> <<>>, final_success |-> FALSE,
                  total_products_found |-> 0, best_attempt |-> NoAttempt]
    /\ best_products = <<>>
    /\ best_attempt = NoAttempt
    /\ search_calls = <<>>
    /\ response = [outcome |-> "pending", success |-> FALSE, recommendations |-> "none"]
    /\ IdleSearch
    /\ IdleResolve

\* variant of the loop header that leaves the loop after any iteration
NextIterationMutant(k) == "finish"

\* the loop header after an iteration that did not break
NextIteration(k) == IF k < MAX_RETRY_ATTEMPTS THEN "refine" ELSE "finish"

\* step 1 of an attempt: the keywords of this attempt are produced
RefineKeywords ==
    /\ UNCHANGED <<searchVars, resolveVars, marketVars>>
    /\ rpc = "refine"
    /\ rpc' = "search"
    /\ UNCHANGED <<attempt_num, session, best_products, best_attempt,
                   search_calls, response>>

\* _refine_keywords_with_ai raises (attempts >= 2 only: attempt 1 copies the
\* original keywords); the except clause records the attempt and continues
RefineKeywordsRaises ==
    /\ UNCHANGED <<searchVars, resolveVars, marketVars>>
    /\ rpc = "refine"
    /\ attempt_num >= 2
    /\ session' = [session EXCEPT
                     !.attempts = Append(@, FailedAttempt(attempt_num, "refine_error"))]
    /\ rpc' = NextIteration(attempt_num)
    /\ attempt_num' = IF attempt_num < MAX_RETRY_ATTEMPTS THEN attempt_num + 1
                      ELSE attempt_num
    /\ UNCHANGED <<best_products, best_attempt, search_calls, response>>

\* lines 142-179: the products search_function returned are counted and
\* recorded, the loop breaks on success or goes on
RecordSearchResult(products) ==
    LET n == Len(products)
        attempt == Attempt(attempt_num, n)
    IN  /\ search_calls' = Append(search_calls, attempt_num)
        /\ IF IsSufficient(n)
           THEN /\ best_products' = products
                /\ best_attempt' = attempt
                /\ session' = [session EXCEPT
                                 !.attempts = Append(@, attempt),
                                 !.final_success = TRUE,
                                 !.best_attempt = attempt]
                /\ rpc' = "finish"
                /\ UNCHANGED attempt_num
           ELSE /\ IF ImprovesBest(n, best_products)
                   THEN /\ best_products' = products
                        /\ best_attempt' = attempt
                        /\ session' = [session EXCEPT
                                         !.attempts = Append(@, attempt),
                                         !.best_attempt = attempt]
                   ELSE /\ session' = [session EXCEPT
                                         !.attempts = Append(@, attempt)]
                        /\ UNCHANGED <<best_products, best_attempt>>
                /\ IF attempt_num < MAX_RETRY_ATTEMPTS
                   THEN rpc' = "sleep" /\ UNCHANGED attempt_num
                   ELSE rpc' = "finish" /\ UNCHANGED attempt_num

\* search_function returns n products: steps 3 to 6
SearchReturns ==
    /\ UNCHANGED <<searchVars, resolveVars, marketVars>>
    /\ rpc = "search"
    /\ \E n \in 0..MaxFound : RecordSearchResult(FoundList(attempt_num, n))
    /\ UNCHANGED response

\* search_function raises: the except clause records the attempt, continues
SearchRaises ==
    /\ UNCHANGED <<searchVars, resolveVars, marketVars>>
    /\ rpc = "search"
    /\ search_calls' = Append(search_calls, attempt_num)
    /\ session' = [session EXCEPT
                     !.attempts = Append(@, FailedAttempt(attempt_num, "search_error"))]
    /\ rpc' = NextIteration(attempt_num)
    /\ attempt_num' = IF attempt_num < MAX_RETRY_ATTEMPTS THEN attempt_num + 1
                      ELSE attempt_num
    /\ UNCHANGED <<best_products, best_attempt, response>>

\* await asyncio.sleep(0.5), then the next iteration
Sleep ==
    /\ UNCHANGED <<searchVars, resolveVars, marketVars>>
    /\ rpc = "sleep"
    /\ attempt_num' = attempt_num + 1
    /\ rpc' = "refine"
    /\ UNCHANGED <<session, best_products, best_attempt, search_calls, response>>

\* lines 200-211: session completion and return
Finish ==
    /\ UNCHANGED <<searchVars, resolveVars, marketVars>>
    /\ rpc = "finish"
    /\ session' = [session EXCEPT !.total_products_found = Len(best_products)]
    /\ rpc' = "returned"
    /\ UNCHANGED <<attempt_num, best_products, best_attempt, search_calls, response>>

----------------------------------------------------------------------------
(* enhanced_naver_engine.py: generate_recommendations_with_retry *)

\* fields of EnhancedRecommendationResponse declared with Field(...)
ResponseRequiredFields ==
    { "request_id", "recommendations", "search_results", "pipeline_metrics",
      "total_processing_time", "created_at", "success", "mcp_enabled",
      "simulation_mode" }

\* keyword arguments of the response built when products were found
SuccessResponseFields ==
    { "request_id", "recommendations", "ai_processing_time",
      "naver_processing_time", "integration_time", "total_processing_time",
      "naver_results_count", "created_at", "success", "enhancement_metrics",
      "refinement_session" }

\* keyword arguments of the AI-only response built when nothing was found
FallbackResponseFields == SuccessResponseFields \cup { "fallback_mode" }

\* keyword arguments of _create_error_response
ErrorResponseFields ==
    { "request_id", "recommendations", "ai_processing_time",
      "naver_processing_time", "integration_time", "total_processing_time",
      "naver_results_count", "created_at", "success", "error_message" }

\* pydantic: constructing the model raises unless every required field is given
Validates(fields) == ResponseRequiredFields \subseteq fields

Raised == [outcome |-> "raised", success |-> FALSE, recommendations |-> "none"]

\* _create_error_response(request_id, message, start_time)
CreateErrorResponse ==
    IF Validates(ErrorResponseFields)
    THEN [outcome |-> "returned", success |-> FALSE, recommendations |-> "empty"]
    ELSE Raised

\* EnhancedRecommendationResponse(...) inside the try block: a validation
\* error is caught by `except Exception` and answered by the error response
BuildResponse(fields, recs) ==
    IF Validates(fields)
    THEN [outcome |-> "returned", success |-> TRUE, recommendations |-> recs]
    ELSE CreateErrorResponse

\* step 1: the AI recommendations are generated, or the generation fails
CallerStart ==
    /\ UNCHANGED <<searchVars, resolveVars, marketVars>>
    /\ rpc = "caller"
    /\ \/ /\ rpc' = "refine"
          /\ UNCHANGED response
       \/ /\ rpc' = "responded"
          /\ response' = CreateErrorResponse
    /\ UNCHANGED <<attempt_num, session, best_products, best_attempt, search_calls>>

\* step 4: final_products, refinement_session are back; the response is built
CallerRespond ==
    /\ UNCHANGED <<searchVars, resolveVars, marketVars>>
    /\ rpc = "returned"
    /\ rpc' = "responded"
    /\ response' = IF best_products # <<>>
                   THEN BuildResponse(SuccessResponseFields, "integrated")
                   ELSE BuildResponse(FallbackResponseFields, "ai_unmatched")
    /\ UNCHANGED <<attempt_num, session, best_products, best_attempt, search_calls>>

NextRefine ==
    \/ CallerStart
    \/ CallerRespond
    \/ RefineKeywords
    \/ RefineKeywordsRaises
    \/ SearchReturns
    \/ SearchRaises
    \/ Sleep
    \/ Finish

SpecRefine == InitRefine /\ [][NextRefine]_vars

\* one client, one search_products_multi_sort call
InitSearch == InitClient /\ IdleRefine /\ IdleResolve

SpecSearch == InitSearch /\ [][NextSearch]_vars

----------------------------------------------------------------------------
(* naver_recommendation_engine.py: one search_products call whose response *)
(* holds malformed records                                                 *)

\* at most MaxRecords records in data["items"]
MaxRecords == 2

\* an entry of data["items"] that is no JSON object (a string, null)
NotAnObject == [shape |-> "text"]

\* the records considered: well-formed ones, and records with a malformed
\* lprice, hprice or productType (a text that is no number, or null)
RawRecords ==
    { ItemA,
      [ItemA EXCEPT !.lprice = [kind |-> "empty"]],
      ItemH,
      ItemG,
      [ItemG EXCEPT !.lprice = PriceOf(60000)],
      [ItemC EXCEPT !.hprice = [kind |-> "bad"]],
      [ItemD EXCEPT !.hprice = PriceOf(99000)],
      [ItemB EXCEPT !.productType = [kind |-> "bad"]],
      [ItemE EXCEPT !.productType = [kind |-> "null"]],
      NotAnObject }

\* the API has answered 200 with data["items"]
InitProcess ==
    /\ spc = "process"
    /\ enabled = TRUE
    /\ keywords = <<"ieopon">>
    /\ budget_max_krw = 150000
    /\ display = 10
    /\ sort_idx = 1
    /\ all_products = <<>>
    /\ result = <<>>
    /\ raw_received = 0
    /\ query = ""
    /\ data_items \in UNION { [1..k -> RawRecords] : k \in 0..MaxRecords }
    /\ IdleRefine
    /\ IdleResolve

\* _process_search_results(data, budget_max_krw): `result` is its list
\* results, unless the call raises
ProcessResults ==
    /\ UNCHANGED <<refineVars, resolveVars>>
    /\ spc = "process"
    /\ IF ProcessRaises(data_items)
       THEN /\ spc' = "raised"
            /\ UNCHANGED result
       ELSE /\ spc' = "processed"
            /\ result' = ProcessSearchResults(data_items, budget_max_krw)
    /\ raw_received' = Len(data_items)
    /\ UNCHANGED <<enabled, keywords, budget_max_krw, display, sort_idx,
                   all_products, query, data_items>>

\* lines 193-205: search_products returns the results, or, in the handler of
\* `except Exception`, the simulated products
SearchProductsReturns ==
    /\ UNCHANGED <<refineVars, resolveVars>>
    /\ spc \in {"processed", "raised"}
    /\ all_products' = IF spc = "raised"
                       THEN SimulateSearch(keywords, budget_max_krw, display)
                       ELSE result
    /\ spc' = "returned"
    /\ UNCHANGED <<enabled, keywords, budget_max_krw, display, sort_idx,
                   result, raw_received, query, data_items>>

NextProcess ==
    \/ ProcessResults
    \/ SearchProductsReturns

SpecProcess == InitProcess /\ [][NextProcess]_vars

----------------------------------------------------------------------------
(* naver_recommendation_engine.py: NaverGiftRecommendationEngine           *)

USD_TO_KRW_RATE == 1300

\* at most this many intents are searched and matched (`[:3]`)
MAX_INTENTS == 3

\* at most this many recommendations in an answer of the AI stage
MaxIntents == 4

\* at most this many candidates are shown to the judge (`naver_products[:5]`)
JUDGE_CANDIDATES == 5

\* a GiftRecommendation.  bound_product is no field of the code: it records
\* the productId of the product the recommendation was made from
Recommendation(title, category, description, price, currency, link, confidence, pid) ==
    [title |-> title, category |-> category, description |-> description,
     estimated_price |-> price, currency |-> currency,
     purchase_link |-> link, image_url |-> "None",
     confidence_score |-> confidence, bound_product |-> pid]

\* a recommendation of the AI stage: an intent (purchase_link=None)
Intent(title, category, description, price, currency, confidence) ==
    Recommendation(title, category, description, price, currency, "None",
                   confidence, "None")

\* what ai_engine.generate_recommendations may answer, in order:
\* "무선 이어폰", "주방용품 선물", "이어폰 헤드셋", "헤드셋"
IntentList ==
    << Intent(<<"museon", "ieopon">>, "jeonjajepum", <<"d1">>, 80000, "KRW", 900),
       Intent(<<"jubangyongpum", "seonmul">>, "home_living", <<"d2">>, 50, "USD", 850),
       Intent(<<"ieopon", "hedeuset">>, "jeonjajepum", <<"d3">>, 0, "USD", 800),
       Intent(<<"hedeuset">>, "jeonjajepum", <<"d4">>, 60000, "KRW", 700) >>

\* the requests.  GiftRequest declares no currency; the engine reads
\* request.currency, which callers set on the object they pass.  "missing"
\* stands for a request without that attribute.
Requests ==
    { [currency |-> "KRW", budget_max |-> 150000, occasion |-> "saengil",
       interests |-> <<"ieopon", "jubangyongpum", "hedeuset">>],
      [currency |-> "USD", budget_max |-> 115, occasion |-> "saengil",
       interests |-> <<"ieopon">>],
      [currency |-> "KRW", budget_max |-> 1, occasion |-> "saengil",
       interests |-> <<"ieopon">>],
      [currency |-> "missing", budget_max |-> 150000, occasion |-> "saengil",
       interests |-> <<"ieopon">>] }

\* lines 1421-1465: the interests of Requests have no entry in
\* interest_templates, so each gets the generic template
\* "{interest} 관련 프리미엄 상품" of category "일반 상품"
InterestRecommendation(req, i) ==
    Intent(<<req.interests[i], "gwallyeon", "peurimieom", "sangpum">>,
           "ilban_sangpum", <<"interest", req.interests[i]>>,
           (req.budget_max * i) \div 4, req.currency, 850 - (i - 1) * 50)

\* lines 1468-1484: "{occasion} 특별 선물", the i-th (from 0) of the remaining
GenericRecommendation(req, i) ==
    Intent(<<req.occasion, "teukbyeol", "seonmul">>, "seonmul",
           <<"occasion", req.occasion>>, req.budget_max \div 2, req.currency,
           800 - i * 50)

\* _create_fallback_ai_recommendations: always three recommendations
FallbackRecommendations(req) ==
    LET n == Min(3, Len(req.interests))
    IN  [i \in 1..3 |->
           IF i <= n THEN InterestRecommendation(req, i)
           ELSE GenericRecommendation(req, i - n - 1)]

\* _get_enhanced_keyword_mapping, the entries for the words of the intents
\* (the dict literal has the key "프리미엄" twice; the later entry is the value)
KeywordMapping(w) ==
    CASE w = "ieopon" -> << "ieopon", "hedeupon", "museonieopon", "beulluteuseuieopon",
                            "eeopat", "hedeuset", "ieobeodeu" >>
      [] w = "museon" -> << "museonieopon", "beulluteuseu", "waieoriseu", "wireless" >>
      [] w = "jubangyongpum" -> << "jubangyongpum", "kichinyongpum", "yoridogu",
                                   "joridogu", "kitchen" >>
      [] w = "seonmul" -> << "seonmulseteu", "gipeuteu", "gift", "present", "ginyeompum" >>
      [] w = "peurimieom" -> << "peurimieom", "gogeup", "leoksyeori", "choegogeup", "premium" >>
      [] OTHER -> <<>>

\* category_keywords
CategoryKeywords(c) ==
    CASE c = "jeonjajepum" -> << "jeonjagigi", "dijiteol" >>
      [] c = "home_living" -> << "saenghwalyongpum", "interieo" >>
      [] OTHER -> <<>>

\* the words line 936 leaves out: 및, 그리고, 또는, 위한
ConnectiveWords == { "mit", "geurigo", "ttoneun", "wihan" }

\* the keywords found for the words of a title (lines 931-937)
RECURSIVE TitleKeywords(_)
TitleKeywords(t) ==
    IF t = <<>> THEN <<>>
    ELSE (IF KeywordMapping(Head(t)) # <<>> THEN KeywordMapping(Head(t))
          ELSE IF Word[Head(t)].len >= 2 /\ Head(t) \notin ConnectiveWords
               THEN <<Head(t)>> ELSE <<>>)
         \o TitleKeywords(Tail(t))

\* lines 953-958: duplicates removed, first occurrence kept
RECURSIVE Unique(_, _)
Unique(acc, rest) ==
    IF rest = <<>> THEN acc
    ELSE IF \E i \in 1..Len(acc) : acc[i] = Head(rest)
         THEN Unique(acc, Tail(rest))
         ELSE Unique(Append(acc, Head(rest)), Tail(rest))

\* variant of _extract_search_keywords_from_ai_rec that keeps duplicates
ExtractSearchKeywordsMutant(ai_rec) ==
    LET keywords_found ==
            TitleKeywords(ai_rec.title) \o CategoryKeywords(ai_rec.category)
    IN  IF keywords_found # <<>> THEN FirstN(keywords_found, 4) ELSE <<"seonmul">>

\* _extract_search_keywords_from_ai_rec
ExtractSearchKeywords(ai_rec) ==
    LET unique_keywords ==
            Unique(<<>>, TitleKeywords(ai_rec.title) \o CategoryKeywords(ai_rec.category))
    IN  IF unique_keywords # <<>> THEN FirstN(unique_keywords, 4) ELSE <<"seonmul">>

\* what one search_products call met: the records of a 200 answer, or a
\* failure (a status other than 200 or an exception)
Ok(items) == [ok |-> TRUE, items |-> items]

Failed == [ok |-> FALSE, items |-> <<>>]

\* search_products, given what the call met
SearchProductsResult(kws, budget, disp, met) ==
    IF met.ok THEN ProcessSearchResults(met.items, budget)
    ELSE SimulateSearch(kws, budget, disp)

\* lines 76-95: all_products, what the three calls returned, each product
\* tagged with the sort order of its call
MultiSortCollected(kws, budget, disp, met) ==
    TagSearchMethod(SearchProductsResult(kws, budget, SearchCount(disp, "sim"), met[1]), "sim")
    \o TagSearchMethod(SearchProductsResult(kws, budget, SearchCount(disp, "asc"), met[2]), "asc")
    \o TagSearchMethod(SearchProductsResult(kws, budget, SearchCount(disp, "dsc"), met[3]), "dsc")

\* variant of search_products_multi_sort that returns what it collected
\* without lines 97-141
MultiSortResultMutant(en, kws, budget, disp, met) ==
    IF ~en THEN SimulateSearch(kws, budget, disp)
    ELSE MultiSortCollected(kws, budget, disp, met)

\* search_products_multi_sort, given what its three calls met
MultiSortResult(en, kws, budget, disp, met) ==
    IF ~en THEN SimulateSearch(kws, budget, disp)
    ELSE DedupScoreSort(MultiSortCollected(kws, budget, disp, met))

\* what the three calls of the search of one intent may meet
SearchScenarios ==
    { << Ok(<<>>), Ok(<<>>), Ok(<<>>) >>,
      << Ok(<<ItemC, ItemB>>), Ok(<<ItemC>>), Ok(<<ItemB>>) >>,
      << Ok(<<ItemB>>), Ok(<<>>), Ok(<<>>) >>,
      << Ok(<<ItemE>>), Ok(<<ItemG>>), Ok(<<>>) >>,
      << Ok(<<ItemC>>), Failed, Ok(<<>>) >>,
      << Failed, Failed, Failed >> }

\* lines 690-694: budget_max_krw of generate_naver_recommendations
BudgetMaxKrw(req) ==
    IF req.currency = "KRW" THEN req.budget_max ELSE req.budget_max * USD_TO_KRW_RATE

\* lines 977-979: budget_max_krw of _smart_integrate_recommendations
IntegrationBudget(req) ==
    IF req.currency = "USD" THEN req.budget_max * USD_TO_KRW_RATE ELSE req.budget_max

\* the positions of a pool, in order
Indices(pool) == [k \in 1..Len(pool) |-> k]

\* variant of the tagged candidates that does not look at the consumed set
RelevantProductsMutant(pool, i, used) ==
    LET Keep(k) == pool[k].ai_recommendation_index = i
    IN  SelectSeq(Indices(pool), Keep)

\* lines 988-993: the products found for intent i that are not consumed
RelevantProducts(pool, i, used) ==
    LET Keep(k) == pool[k].ai_recommendation_index = i
                   /\ pool[k].productId \notin used
    IN  SelectSeq(Indices(pool), Keep)

\* variant of the fallback that does not look at the consumed set
FallbackProductsMutant(pool, budget, used) ==
    LET Keep(k) == 2 * pool[k].lprice <= 3 * budget
    IN  FirstN(SelectSeq(Indices(pool), Keep), 3)

\* lines 1000-1005: the first 3 unconsumed products within 1.5 x budget
FallbackProducts(pool, budget, used) ==
    LET Keep(k) == 2 * pool[k].lprice <= 3 * budget
                   /\ pool[k].productId \notin used
    IN  FirstN(SelectSeq(Indices(pool), Keep), 3)

\* lines 987-1006: the candidates of intent i, as pool indices
Candidates(pool, i, budget, used) ==
    IF RelevantProducts(pool, i, used) # <<>>
    THEN RelevantProducts(pool, i, used)
    ELSE FallbackProducts(pool, budget, used)

\* the words of a title as a set (`set(title.lower().split())`)
WordSet(t) == { t[i] : i \in 1..Len(t) }

Abs(x) == IF x < 0 THEN 0 - x ELSE x

\* total_score of _select_best_matching_product for product p, multiplied
\* by 10 * target_price * |ai_keywords| (the same factor for every candidate):
\* 0.3 * max(0, 1 - |lprice - target| / target) + 0.7 * common / |ai_keywords|
MatchScore(p, target_price, ai_title) ==
    LET ai_keywords == WordSet(ai_title)
        common == Cardinality(ai_keywords \cap WordSet(p.title))
        a == IF ai_keywords = {} \/ p.title = <<>> THEN 1 ELSE Cardinality(ai_keywords)
        c == IF ai_keywords = {} \/ p.title = <<>> THEN 0 ELSE common
    IN  3 * a * Max(0, target_price - Abs(p.lprice - target_price))
          + 7 * c * target_price

\* the loop of lines 1218-1230: the first product with the highest score
RECURSIVE BestOf(_, _, _, _, _)
BestOf(pool, cands, target_price, ai_title, best) ==
    IF cands = <<>> THEN best
    ELSE IF best = 0
            \/ MatchScore(pool[Head(cands)], target_price, ai_title)
                 > MatchScore(pool[best], target_price, ai_title)
         THEN BestOf(pool, Tail(cands), target_price, ai_title, Head(cands))
         ELSE BestOf(pool, Tail(cands), target_price, ai_title, best)

\* _select_best_matching_product, on a non-empty list of pool indices
SelectBestMatchingProduct(pool, cands, budget, ai_title) ==
    LET InBudgetIdx(k) == pool[k].lprice <= budget
        within == SelectSeq(cands, InBudgetIdx)
        budget_products == IF within = <<>> THEN cands ELSE within
    IN  IF Len(budget_products) = 1 THEN budget_products[1]
        ELSE BestOf(pool, budget_products, budget \div 2, ai_title, 0)

\* line 1220 divides by target_price = budget_max_krw // 2: with a budget
\* below 2 the loop over two or more products raises ZeroDivisionError
SelectBestRaises(pool, cands, budget) ==
    LET InBudgetIdx(k) == pool[k].lprice <= budget
        within == SelectSeq(cands, InBudgetIdx)
        budget_products == IF within = <<>> THEN cands ELSE within
    IN  Len(budget_products) # 1 /\ budget \div 2 = 0

\* lines 1052-1056: the judge's candidates get a quality score if they have none
WithJudgeScores(pool, cands) ==
    LET shown == { cands[k] : k \in 1..Min(JUDGE_CANDIDATES, Len(cands)) }
    IN  [k \in 1..Len(pool) |->
           IF k \in shown /\ pool[k].quality_score = None
           THEN [pool[k] EXCEPT !.quality_score = CalculateProductQualityScore(pool[k])]
           ELSE pool[k]]

\* what the judge call gives: "none" (NONE in any letter case), an integer,
\* another text, or an exception
JudgeSays(t) == [kind |-> "text", val |-> 0, text |-> t]

JudgeNone == JudgeSays("NONE")

\* a text that int() parses to k
JudgeIndex(k) == [kind |-> "index", val |-> k, text |-> ""]

JudgeText == JudgeSays("sangpum 2")

JudgeFails == [kind |-> "exception", val |-> 0, text |-> ""]

\* the answers considered
JudgeAnswers ==
    { JudgeNone, JudgeSays("none"), JudgeIndex(0), JudgeIndex(1),
      JudgeIndex(JUDGE_CANDIDATES), JudgeIndex(0 - 1), JudgeText, JudgeFails }

\* str.upper() on the texts considered
Upper(t) ==
    CASE t = "none" -> "NONE"
      [] t = "sangpum 2" -> "SANGPUM 2"
      [] OTHER -> t

\* line 1153: `result.upper() == "NONE"`
SaysNone(answer) == answer.kind = "text" /\ Upper(answer.text) = "NONE"

\* lines 1162-1173: the answer sends the choice to _select_best_matching_product
UsesHeuristic(cands, answer) ==
    /\ ~SaysNone(answer)
    /\ ~(answer.kind = "index" /\ 0 <= answer.val /\ answer.val < Len(cands))

\* lines 1153-1173: the pool index the answer selects, 0 for no product
ParseJudgeMutant(pool, cands, budget, ai_title, answer) ==
    IF SaysNone(answer) THEN 0
    ELSE IF answer.kind = "index" /\ 0 <= answer.val /\ answer.val < Len(cands)
         THEN cands[Max(1, answer.val)]
         ELSE SelectBestMatchingProduct(pool, cands, budget, ai_title)

ParseJudge(pool, cands, budget, ai_title, answer) ==
    IF SaysNone(answer) THEN 0
    ELSE IF answer.kind = "index" /\ 0 <= answer.val /\ answer.val < Len(cands)
         THEN cands[answer.val + 1]
         ELSE SelectBestMatchingProduct(pool, cands, budget, ai_title)

\* descriptors of _merge_ai_intent_with_product: 프리미엄, 무선, ...
IsDescriptorWord(w) == w \in {"museon", "museonieopon", "peurimieom"}

\* _merge_ai_intent_with_product: the words of the AI title that hold a
\* descriptor, then the first three words of the product title
MergeAiIntentWithProduct(ai_title, product_title) ==
    SelectSeq(ai_title, IsDescriptorWord) \o FirstN(product_title, 3)

CONFIDENCE_BONUS == 200

\* variant of the enhanced recommendation whose confidence is not capped
EnhancedRecommendationMutant(ai_rec, product) ==
    [Recommendation(MergeAiIntentWithProduct(ai_rec.title, product.title),
                    ai_rec.category,
                    ai_rec.description \o <<"silje_sangpum">> \o product.title,
                    product.lprice, "KRW", product.link,
                    ai_rec.confidence_score + CONFIDENCE_BONUS,
                    product.productId)
       EXCEPT !.image_url = product.image]

\* _create_enhanced_recommendation_with_product
EnhancedRecommendation(ai_rec, product) ==
    [Recommendation(MergeAiIntentWithProduct(ai_rec.title, product.title),
                    ai_rec.category,
                    ai_rec.description \o <<"silje_sangpum">> \o product.title,
                    product.lprice, "KRW", product.link,
                    Min(ai_rec.confidence_score + CONFIDENCE_BONUS, 1000),
                    product.productId)
       EXCEPT !.image_url = product.image]

\* _convert_ai_rec_to_krw: the intent itself, converted in place
ConvertAiRecToKrw(ai_rec, budget) ==
    IF ai_rec.currency # "KRW"
    THEN [ai_rec EXCEPT
            !.estimated_price = IF ai_rec.estimated_price # 0
                                THEN ai_rec.estimated_price * USD_TO_KRW_RATE
                                ELSE budget \div 2,
            !.currency = "KRW"]
    ELSE ai_rec

\* _create_recommendations_from_products
CreateRecommendationsFromProducts(products) ==
    [i \in 1..Min(3, Len(products)) |->
       [Recommendation(<<"chucheon", "sangpum", SimNumber[i]>> \o products[i].title,
                       products[i].category3, <<"occasion">>, products[i].lprice,
                       "KRW", products[i].link, 700 + (i - 1) * 50,
                       products[i].productId)
          EXCEPT !.image_url = products[i].image]]

\* ai_recommendations[:3]
NumIntents == Min(MAX_INTENTS, Len(ai_recommendations))

InitResolve ==
    /\ gpc = "ai"
    /\ request \in Requests
    /\ openai_key \in BOOLEAN
    /\ ai_recommendations = <<>>
    /\ intent_idx = 0
    /\ all_naver_products = <<>>
    /\ used_product_ids = {}
    /\ enhanced_recommendations = <<>>
    /\ relevant_products = <<>>
    /\ gpt_result = NoJudge
    /\ in_flight = {}
    /\ returned = {}
    /\ enabled \in BOOLEAN
    /\ spc = "idle"
    /\ keywords = <<>>
    /\ budget_max_krw = 0
    /\ display = 0
    /\ sort_idx = 1
    /\ all_products = <<>>
    /\ result = <<>>
    /\ raw_received = 0
    /\ data_items = <<>>
    /\ query = ""
    /\ IdleRefine

\* lines 666-669: no key, the fallback recommendations
AiFallbackNoKey ==
    /\ UNCHANGED <<refineVars, searchVars, in_flight, returned>>
    /\ gpc = "ai"
    /\ request.currency # "missing"
    /\ ~openai_key
    /\ ai_recommendations' = FallbackRecommendations(request)
    /\ gpc' = "search"
    /\ UNCHANGED <<request, openai_key, intent_idx, all_naver_products,
                   used_product_ids, enhanced_recommendations,
                   relevant_products, gpt_result>>

\* lines 671-674: the AI answers with n recommendations
AiGenerates ==
    /\ UNCHANGED <<refineVars, searchVars, in_flight, returned>>
    /\ gpc = "ai"
    /\ request.currency # "missing"
    /\ openai_key
    /\ \E n \in 0..MaxIntents :
         ai_recommendations' = FirstN(IntentList, n)
    /\ gpc' = "search"
    /\ UNCHANGED <<request, openai_key, intent_idx, all_naver_products,
                   used_product_ids, enhanced_recommendations,
                   relevant_products, gpt_result>>

\* lines 677-682: the AI stage reports failure, the fallback recommendations
AiFailsFallback ==
    /\ UNCHANGED <<refineVars, searchVars, in_flight, returned>>
    /\ gpc = "ai"
    /\ request.currency # "missing"
    /\ openai_key
    /\ ai_recommendations' = FallbackRecommendations(request)
    /\ gpc' = "search"
    /\ UNCHANGED <<request, openai_key, intent_idx, all_naver_products,
                   used_product_ids, enhanced_recommendations,
                   relevant_products, gpt_result>>

\* lines 774-801: reading request.currency raises; the error response
PipelineFails ==
    /\ UNCHANGED <<refineVars, searchVars, in_flight, returned>>
    /\ gpc = "ai"
    /\ request.currency = "missing"
    /\ enhanced_recommendations' = <<>>
    /\ gpc' = "failed"
    /\ UNCHANGED <<request, openai_key, ai_recommendations, intent_idx,
                   all_naver_products, used_product_ids,
                   relevant_products, gpt_result>>

\* lines 697-717: one pass of the loop, the search for intent intent_idx,
\* with the calls of search_products_multi_sort issued and returned
SearchForIntent ==
    /\ UNCHANGED <<refineVars, searchVars, in_flight>>
    /\ returned' = returned \cup (IF enabled
                                  THEN { SearchCall(intent_idx, k) :
                                           k \in 1..Len(sort_methods) }
                                  ELSE {})
    /\ gpc = "search"
    /\ intent_idx < NumIntents
    /\ \E met \in SearchScenarios :
         LET ai_rec == ai_recommendations[intent_idx + 1]
             products == MultiSortResult(enabled, ExtractSearchKeywords(ai_rec),
                                         BudgetMaxKrw(request), 35, met)
         IN  all_naver_products' =
               all_naver_products
               \o [k \in 1..Len(products) |->
                     [products[k] EXCEPT !.ai_recommendation_index = intent_idx]]
    /\ intent_idx' = intent_idx + 1
    /\ UNCHANGED <<gpc, request, openai_key, ai_recommendations,
                   used_product_ids, enhanced_recommendations,
                   relevant_products, gpt_result>>

\* lines 969-971: no recommendations, the first products of the pool
IntegrateWithoutIntents ==
    /\ UNCHANGED <<refineVars, searchVars, in_flight, returned>>
    /\ gpc = "search"
    /\ intent_idx = NumIntents
    /\ ai_recommendations = <<>>
    /\ enhanced_recommendations' =
         CreateRecommendationsFromProducts(FirstN(all_naver_products, 3))
    /\ gpc' = "done"
    /\ UNCHANGED <<request, openai_key, ai_recommendations, intent_idx,
                   all_naver_products, used_product_ids,
                   relevant_products, gpt_result>>

\* lines 973-984: _smart_integrate_recommendations starts its loop
BeginIntegration ==
    /\ UNCHANGED <<refineVars, searchVars, in_flight, returned>>
    /\ gpc = "search"
    /\ intent_idx = NumIntents
    /\ ai_recommendations # <<>>
    /\ enhanced_recommendations' = <<>>
    /\ used_product_ids' = {}
    /\ intent_idx' = 0
    /\ gpc' = "match"
    /\ UNCHANGED <<request, openai_key, ai_recommendations, all_naver_products,
                   relevant_products, gpt_result>>

\* lines 1012-1018: the intent is bound to the product at pool index k
Bind(pool, k) ==
    /\ used_product_ids' = used_product_ids \cup {pool[k].productId}
    /\ enhanced_recommendations' =
         Append(enhanced_recommendations,
                EnhancedRecommendation(ai_recommendations[intent_idx + 1], pool[k]))
    /\ UNCHANGED ai_recommendations

\* lines 1021-1032: the intent itself is converted and returned
LeaveUnmatched ==
    LET ai_rec_krw == ConvertAiRecToKrw(ai_recommendations[intent_idx + 1],
                                         IntegrationBudget(request))
    IN  /\ ai_recommendations' =
              [ai_recommendations EXCEPT ![intent_idx + 1] = ai_rec_krw]
        /\ enhanced_recommendations' = Append(enhanced_recommendations, ai_rec_krw)
        /\ UNCHANGED used_product_ids

\* lines 1028-1032: there is no candidate
MatchNoCandidates ==
    /\ UNCHANGED <<refineVars, searchVars, in_flight, returned>>
    /\ gpc = "match"
    /\ intent_idx < NumIntents
    /\ Candidates(all_naver_products, intent_idx, IntegrationBudget(request),
                  used_product_ids) = <<>>
    /\ LeaveUnmatched
    /\ intent_idx' = intent_idx + 1
    /\ UNCHANGED <<gpc, request, openai_key, all_naver_products,
                   relevant_products, gpt_result>>

\* lines 1046-1048: no key, the heuristic matcher selects
MatchHeuristic ==
    /\ UNCHANGED <<refineVars, searchVars, in_flight, returned>>
    /\ gpc = "match"
    /\ intent_idx < NumIntents
    /\ ~openai_key
    /\ LET cands == Candidates(all_naver_products, intent_idx,
                               IntegrationBudget(request), used_product_ids)
       IN  /\ cands # <<>>
           /\ ~SelectBestRaises(all_naver_products, cands, IntegrationBudget(request))
           /\ Bind(all_naver_products,
                   SelectBestMatchingProduct(all_naver_products, cands,
                                             IntegrationBudget(request),
                                             ai_recommendations[intent_idx + 1].title))
    /\ intent_idx' = intent_idx + 1
    /\ UNCHANGED <<gpc, request, openai_key, all_naver_products,
                   relevant_products, gpt_result>>

\* lines 1050-1146: the candidates are scored and shown to the judge, and
\* the call to the judge is awaited
AskJudge ==
    /\ UNCHANGED <<refineVars, searchVars, returned>>
    /\ in_flight' = in_flight \cup {JudgeCall(intent_idx)}
    /\ gpc = "match"
    /\ intent_idx < NumIntents
    /\ openai_key
    /\ LET cands == Candidates(all_naver_products, intent_idx,
                               IntegrationBudget(request), used_product_ids)
       IN  /\ cands # <<>>
           /\ all_naver_products' = WithJudgeScores(all_naver_products, cands)
           /\ relevant_products' = cands
    /\ gpc' = "judging"
    /\ UNCHANGED <<request, openai_key, ai_recommendations, intent_idx,
                   used_product_ids, enhanced_recommendations, gpt_result>>

\* lines 1145-1146 and 1171: the call returns a text, or raises
JudgeReturns ==
    /\ UNCHANGED <<refineVars, searchVars>>
    /\ in_flight' = CallDone(in_flight, JudgeCall(intent_idx))
    /\ returned' = returned \cup {JudgeCall(intent_idx)}
    /\ gpc = "judging"
    /\ gpt_result' \in JudgeAnswers
    /\ gpc' = "judged"
    /\ UNCHANGED <<request, openai_key, ai_recommendations, intent_idx,
                   all_naver_products, used_product_ids, enhanced_recommendations,
                   relevant_products>>

\* lines 1153-1173 and 1010-1024: the answer is parsed and the intent is
\* bound or left unmatched
MatchJudged ==
    /\ UNCHANGED <<refineVars, searchVars, in_flight, returned>>
    /\ gpc = "judged"
    /\ ~(/\ UsesHeuristic(relevant_products, gpt_result)
         /\ SelectBestRaises(all_naver_products, relevant_products,
                             IntegrationBudget(request)))
    /\ LET k == ParseJudge(all_naver_products, relevant_products,
                           IntegrationBudget(request),
                           ai_recommendations[intent_idx + 1].title, gpt_result)
       IN  IF k = 0 THEN LeaveUnmatched ELSE Bind(all_naver_products, k)
    /\ relevant_products' = <<>>
    /\ gpt_result' = NoJudge
    /\ intent_idx' = intent_idx + 1
    /\ gpc' = "match"
    /\ UNCHANGED <<request, openai_key, all_naver_products>>

\* _select_best_matching_product raises, in the handler of line 1171 or
\* after the answer of the judge; nothing of _smart_integrate_recommendations
\* catches it, and generate_naver_recommendations answers with the error
\* response of lines 774-801
IntegrationRaises ==
    /\ UNCHANGED <<refineVars, searchVars, in_flight, returned>>
    /\ \/ /\ gpc = "match"
          /\ intent_idx < NumIntents
          /\ ~openai_key
          /\ LET cands == Candidates(all_naver_products, intent_idx,
                                     IntegrationBudget(request), used_product_ids)
             IN  /\ cands # <<>>
                 /\ SelectBestRaises(all_naver_products, cands,
                                     IntegrationBudget(request))
       \/ /\ gpc = "judged"
          /\ UsesHeuristic(relevant_products, gpt_result)
          /\ SelectBestRaises(all_naver_products, relevant_products,
                              IntegrationBudget(request))
    /\ enhanced_recommendations' = <<>>
    /\ gpc' = "failed"
    /\ UNCHANGED <<request, openai_key, ai_recommendations, intent_idx,
                   all_naver_products, used_product_ids,
                   relevant_products, gpt_result>>

\* line 1035 and lines 736-772: the recommendations are returned
IntegrationReturns ==
    /\ UNCHANGED <<refineVars, searchVars, in_flight, returned>>
    /\ gpc = "match"
    /\ intent_idx = NumIntents
    /\ gpc' = "done"
    /\ UNCHANGED <<request, openai_key, ai_recommendations, intent_idx,
                   all_naver_products, used_product_ids, enhanced_recommendations,
                   relevant_products, gpt_result>>

\* _convert_naver_to_search_results: search_results of the response
SEARCH_RESULTS_SHOWN == 5

SearchResults == FirstN(all_naver_products, SEARCH_RESULTS_SHOWN)

\* simulation_mode of the response (line 770, line 799 in the error response)
SimulationMode == IF gpc = "failed" THEN TRUE ELSE ~enabled

NextResolve ==
    \/ AiFallbackNoKey
    \/ AiGenerates
    \/ AiFailsFallback
    \/ PipelineFails
    \/ SearchForIntent
    \/ IntegrateWithoutIntents
    \/ BeginIntegration
    \/ MatchNoCandidates
    \/ MatchHeuristic
    \/ AskJudge
    \/ JudgeReturns
    \/ MatchJudged
    \/ IntegrationRaises
    \/ IntegrationReturns

SpecResolve == InitResolve /\ [][NextResolve]_vars

----------------------------------------------------------------------------
(* The outbound calls of one generate_naver_recommendations call: the      *)
(* search loop of lines 697-717 with each search_products request of       *)
(* search_products_multi_sort issued and awaited, then the integration.    *)

MaxCallIntents == 2

\* what one search_products request may meet
CallOutcomes == { Ok(<<>>), Ok(<<ItemC>>), Failed }

\* the AI stage has answered with at most MaxCallIntents intents
InitCalls ==
    /\ IdleRefine
    /\ gpc = "search"
    /\ request = [currency |-> "KRW", budget_max |-> 150000,
                  occasion |-> "saengil", interests |-> <<"ieopon">>]
    /\ openai_key \in BOOLEAN
    /\ \E n \in 1..MaxCallIntents : ai_recommendations = FirstN(IntentList, n)
    /\ intent_idx = 0
    /\ all_naver_products = <<>>
    /\ used_product_ids = {}
    /\ enhanced_recommendations = <<>>
    /\ relevant_products = <<>>
    /\ gpt_result = NoJudge
    /\ in_flight = {}
    /\ returned = {}
    /\ enabled \in BOOLEAN
    /\ spc = "idle"
    /\ keywords = <<>>
    /\ budget_max_krw = 0
    /\ display = 0
    /\ sort_idx = 1
    /\ all_products = <<>>
    /\ result = <<>>
    /\ raw_received = 0
    /\ data_items = <<>>
    /\ query = ""

\* lines 697-707: search_products_multi_sort is called for intent intent_idx
BeginSearchForIntent ==
    /\ UNCHANGED <<refineVars, resolveVars>>
    /\ gpc = "search"
    /\ intent_idx < NumIntents
    /\ spc = "idle"
    /\ keywords' = ExtractSearchKeywords(ai_recommendations[intent_idx + 1])
    /\ budget_max_krw' = BudgetMaxKrw(request)
    /\ display' = 35
    /\ sort_idx' = 1
    /\ all_products' = <<>>
    /\ result' = <<>>
    /\ spc' = "start"
    /\ UNCHANGED <<enabled, raw_received, query,
                   data_items>>

\* lines 84 and 176-190: the request of the next sort order is sent and awaited
IssueSearchCall ==
    /\ UNCHANGED refineVars
    /\ spc = "searching"
    /\ in_flight' = in_flight \cup {SearchCall(intent_idx, sort_idx)}
    /\ spc' = "awaiting"
    /\ UNCHANGED <<enabled, keywords, budget_max_krw, display, sort_idx,
                   all_products, result, raw_received, query,
                   data_items>>
    /\ UNCHANGED <<gpc, request, openai_key, ai_recommendations, intent_idx,
                   all_naver_products, used_product_ids, enhanced_recommendations,
                   relevant_products, gpt_result, returned>>

\* lines 84-91 and 192-205: the request has returned (with records, or
\* with a failure that search_products answers by simulation), and its
\* products are collected
SearchCallReturns ==
    /\ UNCHANGED refineVars
    /\ spc = "awaiting"
    /\ \E met \in CallOutcomes :
         Collect(SearchProductsResult(keywords, budget_max_krw,
                                      SearchCount(display, sort_methods[sort_idx]),
                                      met))
    /\ in_flight' = CallDone(in_flight, SearchCall(intent_idx, sort_idx))
    /\ returned' = returned \cup {SearchCall(intent_idx, sort_idx)}
    /\ UNCHANGED <<raw_received, data_items>>
    /\ UNCHANGED <<gpc, request, openai_key, ai_recommendations, intent_idx,
                   all_naver_products, used_product_ids, enhanced_recommendations,
                   relevant_products, gpt_result>>

\* lines 709-717: the products found are stored for the intent
StoreSearchResults ==
    /\ UNCHANGED refineVars
    /\ gpc = "search"
    /\ spc = "done"
    /\ all_naver_products' =
         all_naver_products
         \o [k \in 1..Len(result) |->
               [result[k] EXCEPT !.ai_recommendation_index = intent_idx]]
    /\ intent_idx' = intent_idx + 1
    /\ spc' = "idle"
    /\ UNCHANGED <<enabled, keywords, budget_max_krw, display, sort_idx,
                   all_products, result, raw_received, query,
                   data_items>>
    /\ UNCHANGED <<gpc, request, openai_key, ai_recommendations,
                   used_product_ids, enhanced_recommendations,
                   relevant_products, gpt_result, in_flight, returned>>

NextCalls ==
    \/ BeginSearchForIntent
    \/ MultiSortSimulated
    \/ MultiSortBegin
    \/ IssueSearchCall
    \/ SearchCallReturns
    \/ MultiSortFinish
    \/ StoreSearchResults
    \/ BeginIntegration
    \/ MatchNoCandidates
    \/ MatchHeuristic
    \/ AskJudge
    \/ JudgeReturns
    \/ MatchJudged
    \/ IntegrationReturns

SpecCalls == InitCalls /\ [][NextCalls]_vars

----------------------------------------------------------------------------
(* _create_product_signature on the products search_products_multi_sort    *)
(* has collected (lines 98-121).                                           *)

MaxSigWords == 8

\* 정품 무선이어폰 상품 헤드셋 노이즈캔슬링 이어폰 블루투스 주방용품 프리미엄
BaseTitle ==
    << "jeongpum", "museonieopon", "sangpum", "hedeuset", "noijeukaenseulling",
       "ieopon", "beulluteuseu", "jubangyongpum", "peurimieom" >>

\* the words of base at the positions of S, in the order of base
SubTitle(base, S) ==
    LET Keep(i) == i \in S
        sel == SelectSeq(Indices(base), Keep)
    IN  [k \in 1..Len(sel) |-> base[sel[k]]]

Reversed(t) == [k \in 1..Len(t) |-> t[Len(t) + 1 - k]]

\* the titles: the words of the first MaxSigWords words of BaseTitle, some
\* left out, in that order or in the opposite order
SignatureTitles ==
    LET base == FirstN(BaseTitle, MaxSigWords)
    IN  { SubTitle(base, S) : S \in SUBSET (1..Len(base)) }
        \cup { Reversed(SubTitle(base, S)) : S \in SUBSET (1..Len(base)) }

SignatureBrands == { "", "Samsung" }

\* two listings of one title and brand, from two sellers
InitSignature ==
    /\ IdleRefine
    /\ IdleResolve
    /\ spc = "collected"
    /\ enabled = TRUE
    /\ keywords = <<"ieopon">>
    /\ budget_max_krw = 150000
    /\ display = 20
    /\ sort_idx = Len(sort_methods) + 1
    /\ \E t \in SignatureTitles, b \in SignatureBrands :
         all_products =
           TagSearchMethod(<< Product(t, "link1", 30000, "mallA", "p1", b,
                                      "ieopon", FALSE) >>, "sim")
           \o TagSearchMethod(<< Product(t, "link2", 90000, "mallB", "p2", b,
                                         "ieopon", FALSE) >>, "asc")
    /\ result = <<>>
    /\ raw_received = 2
    /\ data_items = <<>>
    /\ query = "ieopon"

NextSignature == MultiSortFinish

SpecSignature == InitSignature /\ [][NextSignature]_vars

----------------------------------------------------------------------------
(* From an intent to the search query: lines 698-709 extract the keywords  *)
(* of an intent, and search_products turns them into the query.            *)

MaxTitleLen == 2

\* words of intent titles: 프리미엄, 무선, 주방용품, 이어폰, 선물, 위한, 헤드셋
TitleWords ==
    { "peurimieom", "museon", "jubangyongpum", "ieopon", "seonmul", "wihan",
      "hedeuset" }

\* the titles of at most MaxTitleLen words
IntentTitles == UNION { [1..n -> TitleWords] : n \in 0..MaxTitleLen }

\* 전자제품, 홈&리빙, and no category
IntentCategories == { "jeonjajepum", "home_living", "" }

InitKeywords ==
    /\ IdleRefine
    /\ spc = "idle"
    /\ enabled = TRUE
    /\ keywords = <<>>
    /\ budget_max_krw = 0
    /\ display = 0
    /\ sort_idx = 1
    /\ all_products = <<>>
    /\ result = <<>>
    /\ raw_received = 0
    /\ data_items = <<>>
    /\ query = ""
    /\ gpc = "keywords"
    /\ request = [currency |-> "KRW", budget_max |-> 0]
    /\ openai_key = FALSE
    /\ \E t \in IntentTitles, c \in IntentCategories :
         ai_recommendations = << Intent(t, c, <<"d1">>, 50000, "KRW", 900) >>
    /\ intent_idx = 0
    /\ all_naver_products = <<>>
    /\ used_product_ids = {}
    /\ enhanced_recommendations = <<>>
    /\ relevant_products = <<>>
    /\ gpt_result = NoJudge
    /\ in_flight = {}
    /\ returned = {}

\* line 699: search_keywords = _extract_search_keywords_from_ai_rec(ai_rec, request)
ExtractKeywords ==
    /\ UNCHANGED <<refineVars, resolveVars>>
    /\ spc = "idle"
    /\ keywords' = ExtractSearchKeywords(ai_recommendations[1])
    /\ spc' = "searching"
    /\ UNCHANGED <<enabled, budget_max_krw, display, sort_idx, all_products,
                   result, raw_received, query,
                   data_items>>

\* line 158: query = self._optimize_search_query(keywords)
OptimizeQuery ==
    /\ UNCHANGED <<refineVars, resolveVars>>
    /\ spc = "searching"
    /\ query = ""
    /\ query' = OptimizeSearchQuery(keywords)
    /\ UNCHANGED <<spc, enabled, keywords, budget_max_krw, display, sort_idx,
                   all_products, result, raw_received,
                   data_items>>

NextKeywords ==
    \/ ExtractKeywords
    \/ OptimizeQuery

SpecKeywords == InitKeywords /\ [][NextKeywords]_vars

----------------------------------------------------------------------------
(* enhanced_naver_engine.py: the retry loop over the commerce search       *)

\* display=20 of search_function (line 104)
RETRY_DISPLAY == 20

\* the keywords an attempt may search with
RetryKeywords == { <<"ieopon">>, <<"hedeuset", "ieopon">> }

\* budget_max_krw = int(request.budget_max * 1300) for 115 and 150 USD
RetryBudgets == { 115 * USD_TO_KRW_RATE, 150 * USD_TO_KRW_RATE }

InitRetry ==
    /\ IdleMarket
    /\ rpc = "caller"
    /\ attempt_num = 1
    /\ session = [attempts |-> <<>>, final_success |-> FALSE,
                  total_products_found |-> 0, best_attempt |-> NoAttempt]
    /\ best_products = <<>>
    /\ best_attempt = NoAttempt
    /\ search_calls = <<>>
    /\ response = [outcome |-> "pending", success |-> FALSE, recommendations |-> "none"]
    /\ spc = "idle"
    /\ enabled \in BOOLEAN
    /\ keywords = <<>>
    /\ budget_max_krw \in RetryBudgets
    /\ display = RETRY_DISPLAY
    /\ sort_idx = 1
    /\ all_products = <<>>
    /\ result = <<>>
    /\ raw_received = 0
    /\ data_items = <<>>
    /\ query = ""
    /\ IdleResolve

\* search_function of lines 100-105 is awaited in an attempt: the three
\* search_products calls of search_products_multi_sort meet `met`, and the
\* loop records what the search returned (lines 140-179)
SearchFunctionReturns ==
    /\ UNCHANGED <<resolveVars, marketVars>>
    /\ rpc = "search"
    /\ \E kws \in RetryKeywords, met \in SearchScenarios :
         /\ keywords' = kws
         /\ all_products' = IF enabled
                            THEN MultiSortCollected(kws, budget_max_krw, display, met)
                            ELSE <<>>
         /\ result' = MultiSortResult(enabled, kws, budget_max_krw, display, met)
         /\ query' = IF enabled THEN OptimizeSearchQuery(kws) ELSE query
         /\ RecordSearchResult(MultiSortResult(enabled, kws, budget_max_krw, display, met))
    /\ UNCHANGED <<spc, enabled, budget_max_krw, display, sort_idx, raw_received,
                   response,
                   data_items>>

NextRetry ==
    \/ CallerStart
    \/ RefineKeywords
    \/ RefineKeywordsRaises
    \/ SearchFunctionReturns
    \/ Sleep
    \/ Finish
    \/ CallerRespond

SpecRetry == InitRetry /\ [][NextRetry]_vars

----------------------------------------------------------------------------
(* intelligent_query_refinement.py: the keywords of each attempt           *)
(*                                                                         *)
(* Keywords are romanized: museonieopon 무선이어폰, noteubuk 노트북, keopi 커피,  *)
(* ingi 인기, chucheon 추천, beseuteu 베스트, teurendeu 트렌드, seonmul 선물,     *)
(* hwakjang 확장, kategori 카테고리, matchum 맞춤, daean 대안, ...              *)
(***************************************************************************)

\* the set of entries of a list
Range(seq) == { seq[i] : i \in DOMAIN seq }

\* _get_age_group: an int has no isdigit, the AttributeError is swallowed by
\* the bare except; a string of digits is read, any other string counts as 25
GetAgeGroup(age) ==
    IF age.type = "int" THEN "twenties"
    ELSE LET age_num == IF age.type = "digits" THEN age.val ELSE 25
         IN  IF age_num < 20 THEN "teens"
             ELSE IF age_num < 30 THEN "twenties"
             ELSE IF age_num < 40 THEN "thirties"
             ELSE IF age_num < 50 THEN "forties"
             ELSE "seniors"

\* age_based_products of _generate_market_insights
AgeBasedProducts(age_group) ==
    CASE age_group = "teens" ->
           <<"hagyongpum", "geim", "kpopgutjeu", "seumateuponaekseseori">>
      [] age_group = "twenties" ->
           <<"museonieopon", "noteubuk", "keopi", "paesyeonaksesseori">>
      [] age_group = "thirties" ->
           <<"seumateuwochi", "hwajangpum", "masajigi", "hongcha">>
      [] age_group = "forties" ->
           <<"geongangsikpum", "golpeuyongpum", "gogeupcha", "beulluteuseuseupikeo">>
      [] age_group = "seniors" ->
           <<"geongangginengsikpum", "jeontongcha", "sanchaegyongpum", "masajiuija">>
      [] OTHER -> <<"seonmulseteu", "peurimieomsangpum">>

\* trending_keywords of _generate_market_insights
TrendingKeywords(gender) ==
    <<"ingi", "chucheon", "beseuteu">>
    \o (IF gender = "yeoseong" THEN <<"yeppeun", "gamseongjeok", "yeoseongyong">>
        ELSE IF gender = "namseong" THEN <<"siryongjeok", "gineungseong", "namseongyong">>
        ELSE <<>>)

\* _get_market_insights -> _generate_market_insights(keywords, age, gender)
GenerateMarketInsights(context) ==
    [present |-> TRUE,
     suggested_products |->
        FirstN(AgeBasedProducts(GetAgeGroup(context.recipient_age)), 3),
     trending_keywords |-> FirstN(TrendingKeywords(context.recipient_gender), 4)]

\* `for x in xs: if x not in acc: acc.append(x)`
AppendAbsent(acc, xs) ==
    LET RECURSIVE Go(_, _)
        Go(a, k) == IF k > Len(xs) THEN a
                    ELSE Go(IF xs[k] \in Range(a) THEN a ELSE Append(a, xs[k]), k + 1)
    IN  Go(acc, 1)

\* variant of the merge that appends a suggested product even when the
\* keywords hold it already
IntegrateMarketSuggestionsMutant(current_keywords, insights) ==
    LET with_products == current_keywords \o FirstN(insights.suggested_products, 2)
        trending == FirstN(insights.trending_keywords, 1)
        integrated ==
            IF /\ trending # <<>>
               /\ trending[1] \notin Range(with_products)
               /\ Len(with_products) < 5
            THEN Append(with_products, trending[1])
            ELSE with_products
    IN  FirstN(integrated, 5)

\* _integrate_market_suggestions(current_keywords, market_insights)
IntegrateMarketSuggestions(current_keywords, insights) ==
    LET with_products ==
            AppendAbsent(current_keywords, FirstN(insights.suggested_products, 2))
        trending == FirstN(insights.trending_keywords, 1)
        integrated ==
            IF /\ trending # <<>>
               /\ trending[1] \notin Range(with_products)
               /\ Len(with_products) < 5
            THEN Append(with_products, trending[1])
            ELSE with_products
    IN  FirstN(integrated, 5)

\* _simulate_keyword_refinement: strategy_transforms applied to the first
\* original keyword
SimulateKeywordRefinement(original, strategy) ==
    LET base == IF original # <<>> THEN original[1] ELSE "seonmul"
    IN  CASE strategy = "synonym_expansion" ->
               <<base \o "+hwakjang", "museon", "peurimieom">>
          [] strategy = "category_broadening" ->
               <<base \o "+kategori", "saenghwalyongpum", "aekseseori">>
          [] strategy = "market_research" ->
               <<base \o "+ingi", "teurendeu", "chucheon">>
          [] strategy = "demographic_adaptation" ->
               <<base \o "+matchum", "gaeinhwa", "seonmul">>
          [] strategy = "budget_alternative" ->
               <<base \o "+daean", "hamnijeok", "gaseongbi">>
          [] OTHER -> <<base>>

\* modifiers of _fallback_keyword_refinement
RefinementModifiers == <<"peurimieom", "ingi", "chucheon", "beseuteu", "sinsang">>

\* _fallback_keyword_refinement: [modifier] + base_keywords[:3]
FallbackKeywordRefinement(original, attempt_number) ==
    <<RefinementModifiers[Min(attempt_number - 1, Len(RefinementModifiers) - 1) + 1]>>
    \o FirstN(original, 3)

\* the "refined_keywords" lists the model lets the AI answer with
AiKeywordAnswers ==
    { <<"museonieopon", "seonmul">>,
      <<"keopi", "ingi", "noteubuk", "museonieopon">>,
      <<"keopi", "seonmul", "chucheon", "beseuteu", "sinsang", "teurendeu">> }

\* _refine_keywords_with_ai: the simulated refinement, the answer of the AI, or
\* the rule-based fallback when the AI call fails
RefinedKeywordLists(original, strategy, attempt_number) ==
    { SimulateKeywordRefinement(original, strategy),
      FallbackKeywordRefinement(original, attempt_number) }
    \cup AiKeywordAnswers

\* the keyword lists handed to refine_search_with_retries
OriginalKeywordLists ==
    { <<>>, <<"museonieopon">>,
      <<"noteubuk", "keopi", "seonmul", "ingi", "jeonjajepum">> }

\* gift_context: the caller passes request.recipient_age, an int; a direct
\* call may pass a string
GiftContexts ==
    { [recipient_age |-> [type |-> "int", val |-> 45], recipient_gender |-> "yeoseong"],
      [recipient_age |-> [type |-> "digits", val |-> 45], recipient_gender |-> "male"] }

\* the product counts the search of an attempt returns in this specification
MarketFound == {0, MIN_PRODUCTS_THRESHOLD - 1, MIN_PRODUCTS_THRESHOLD}

\* refine_search_with_retries is entered with its arguments
InitMarket ==
    /\ rpc = "refine"
    /\ attempt_num = 1
    /\ session = [attempts |-> <<>>, final_success |-> FALSE,
                  total_products_found |-> 0, best_attempt |-> NoAttempt]
    /\ best_products = <<>>
    /\ best_attempt = NoAttempt
    /\ search_calls = <<>>
    /\ response = [outcome |-> "pending", success |-> FALSE, recommendations |-> "none"]
    /\ original_keywords \in OriginalKeywordLists
    /\ gift_context \in GiftContexts
    /\ refined_keywords = <<>>
    /\ market_insights = NoInsights
    /\ IdleSearch
    /\ IdleResolve

\* step 1 (lines 107-119): attempt 1 copies the original keywords, a later
\* attempt takes what _refine_keywords_with_ai returns
RefineKeywordsOfAttempt ==
    /\ UNCHANGED <<searchVars, resolveVars>>
    /\ rpc = "refine"
    /\ rpc' = "insights"
    /\ IF attempt_num = 1
       THEN refined_keywords' = original_keywords
       ELSE refined_keywords' \in
               RefinedKeywordLists(original_keywords, StrategyOf(attempt_num), attempt_num)
    /\ UNCHANGED <<attempt_num, session, best_products, best_attempt,
                   search_calls, response, original_keywords, gift_context,
                   market_insights>>

\* step 2 (lines 121-134): market_insights = None; under market_research, from
\* attempt 3 on, the insights are collected and merged into the keywords
CollectMarketInsights ==
    /\ UNCHANGED <<searchVars, resolveVars>>
    /\ rpc = "insights"
    /\ rpc' = "search"
    /\ IF attempt_num >= 3 /\ StrategyOf(attempt_num) = "market_research"
       THEN LET insights == GenerateMarketInsights(gift_context)
            IN  /\ market_insights' = insights
                /\ refined_keywords' =
                      IF insights.suggested_products # <<>>
                      THEN IntegrateMarketSuggestions(refined_keywords, insights)
                      ELSE refined_keywords
       ELSE /\ market_insights' = NoInsights
            /\ UNCHANGED refined_keywords
    /\ UNCHANGED <<attempt_num, session, best_products, best_attempt,
                   search_calls, response, original_keywords, gift_context>>

\* search_function(refined_keywords, budget_max_krw) returns: steps 3 to 6
SearchWithKeywordsReturns ==
    /\ UNCHANGED <<searchVars, resolveVars, marketVars>>
    /\ rpc = "search"
    /\ \E n \in MarketFound : RecordSearchResult(FoundList(attempt_num, n))
    /\ UNCHANGED response

NextMarket ==
    \/ RefineKeywordsOfAttempt
    \/ RefineKeywordsRaises
    \/ CollectMarketInsights
    \/ SearchWithKeywordsReturns
    \/ SearchRaises
    \/ Sleep
    \/ Finish

SpecMarket == InitMarket /\ [][NextMarket]_vars

----------------------------------------------------------------------------
(* Properties of the refinement controller *)

Attempts == session.attempts

NumAttempts == Len(session.attempts)

\* the highest product count over the recorded attempts (0 when none)
MaxProductsFound ==
    IF NumAttempts = 0 THEN 0
    ELSE CHOOSE m \in 0..MaxFound :
            /\ \E i \in 1..NumAttempts : Attempts[i].products_found = m
            /\ \A i \in 1..NumAttempts : Attempts[i].products_found <= m

\* the refinement loop has returned (the caller may have answered since)
RefineReturned == rpc \in {"returned", "responded"} /\ NumAttempts > 0

\* C1: a session records at most 5 attempts, and the first attempt that
\* finds at least 3 products is the last one: no attempt is recorded and no
\* search is issued after it.
C1_BoundedAndHaltsOnSuccess ==
    /\ NumAttempts <= 5
    /\ Len(search_calls) <= 5
    /\ \A i \in 1..NumAttempts :
          Attempts[i].products_found >= 3 =>
             /\ i = NumAttempts
             /\ \A j \in 1..Len(search_calls) :
                   search_calls[j] <= Attempts[i].attempt_number

C1_Witness ==
    /\ rpc = "returned"
    /\ NumAttempts = 3
    /\ Attempts[1].products_found = 2
    /\ Attempts[3].products_found = 3
    /\ search_calls = <<1, 2, 3>>

\* C8 as stated: when no attempt reaches 3 products, the returned list is the
\* list of an attempt with the maximal product count and session.best_attempt
\* is that attempt.
C8_Original ==
    (RefineReturned /\ \A i \in 1..NumAttempts : Attempts[i].products_found < 3)
    => \E i \in 1..NumAttempts :
          /\ Attempts[i].products_found = MaxProductsFound
          /\ best_products = FoundList(i, Attempts[i].products_found)
          /\ session.best_attempt = Attempts[i]

\* C8 amended: when no attempt reaches 3 products and some attempt found at
\* least one, the returned list is that of the first attempt with the maximal
\* product count and session.best_attempt is that attempt; when every attempt
\* found 0 products the returned list is empty and session.best_attempt is
\* None.
C8_BestPartial ==
    (RefineReturned /\ \A i \in 1..NumAttempts : Attempts[i].products_found < 3)
    => IF MaxProductsFound = 0
       THEN best_products = <<>> /\ session.best_attempt = NoAttempt
       ELSE \E i \in 1..NumAttempts :
               /\ Attempts[i].products_found = MaxProductsFound
               /\ \A j \in 1..(i - 1) : Attempts[j].products_found < MaxProductsFound
               /\ best_products = FoundList(i, MaxProductsFound)
               /\ session.best_attempt = Attempts[i]

C8_Witness ==
    /\ rpc = "returned"
    /\ NumAttempts = 5
    /\ ~session.final_success
    /\ Attempts[2].products_found = 1
    /\ Attempts[3].products_found = 2
    /\ Attempts[5].products_found = 2
    /\ session.best_attempt = Attempts[3]

\* every search of the session was issued and returned an empty list
AllFiveEmpty ==
    /\ search_calls = <<1, 2, 3, 4, 5>>
    /\ NumAttempts = 5
    /\ \A i \in 1..5 : Attempts[i].products_found = 0
                        /\ Attempts[i].failure_reason = "None"

\* C9: when all 5 attempts return 0 products the loop ends without raising
\* with exactly 5 attempts, final_success false and an empty list, and the
\* caller answers success = true with the intents unmatched.
C9_ExhaustionAnswered ==
    (rpc = "responded" /\ AllFiveEmpty)
    => /\ NumAttempts = 5
       /\ ~session.final_success
       /\ best_products = <<>>
       /\ response.outcome = "returned"
       /\ response.success
       /\ response.recommendations = "ai_unmatched"

\* C10: an exception in attempt k stays inside the loop: attempt k is
\* recorded once (the i-th record is attempt i) with success false, 0 products
\* and a failure reason, and when k < 5 attempt k+1 is run.
C10_FaultIsolation ==
    \A i \in 1..NumAttempts :
       /\ Attempts[i].attempt_number = i
       /\ Attempts[i].failure_reason # "None" =>
             /\ ~Attempts[i].success
             /\ Attempts[i].products_found = 0
             /\ i < 5 => \/ NumAttempts > i
                         \/ rpc \in {"refine", "search"} /\ attempt_num = i + 1

C10_Witness ==
    /\ NumAttempts = 3
    /\ Attempts[1].failure_reason = "search_error"
    /\ Attempts[2].failure_reason = "refine_error"
    /\ Attempts[3].failure_reason = "None"
    /\ search_calls = <<1, 3>>

\* C21: between the end of an unsuccessful attempt k < 5 and attempt k+1 the
\* controller waits the inter-attempt delay: the loop variable advances only
\* in the step that sleeps, whether attempt k found too little or raised.
C21_DelayBetweenAttempts ==
    [][ (attempt_num' # attempt_num) => (rpc = "sleep") ]_vars

\* C22: the k-th attempt recorded in a session has attempt_number k and the
\* k-th of the five strategies, also after attempts that raised.
C22_AttemptNumberAndStrategy ==
    \A i \in 1..NumAttempts :
       /\ Attempts[i].attempt_number = i
       /\ Attempts[i].refinement_strategy = refinement_strategies[i]

\* five attempts are recorded, the first two of them raised
C22_Witness ==
    /\ NumAttempts = 5
    /\ Attempts[1].failure_reason = "search_error"
    /\ Attempts[2].failure_reason = "refine_error"
    /\ Attempts[4].failure_reason = "None"
    /\ Attempts[5].refinement_strategy = "budget_alternative"

\* C29: once refine_search_with_retries has returned, an attempt has success
\* iff it found at least 3 products, only the last recorded attempt can have
\* success, final_success is the success of the last attempt, and
\* total_products_found is the length of the returned list.
C29_SessionConsistent ==
    RefineReturned =>
       /\ \A i \in 1..NumAttempts :
             Attempts[i].success <=> (Attempts[i].products_found >= 3)
       /\ \A i \in 1..(NumAttempts - 1) : ~Attempts[i].success
       /\ session.final_success <=> Attempts[NumAttempts].success
       /\ session.total_products_found = Len(best_products)

\* a raised attempt, a partial one and a sufficient one; the call has returned
C29_Witness ==
    /\ rpc = "returned"
    /\ NumAttempts = 3
    /\ Attempts[1].failure_reason = "search_error"
    /\ Attempts[2].products_found = 2
    /\ Attempts[3].products_found = 4
    /\ session.final_success
    /\ session.total_products_found = 4


----------------------------------------------------------------------------
(* Properties of search_products and search_products_multi_sort *)

\* the products search_products has returned so far and those of the result
Returned ==
    { all_products[i] : i \in 1..Len(all_products) }
      \cup { result[i] : i \in 1..Len(result) }

\* C2 as stated: every returned product, real or simulated, has
\* max(10000, budgetMax // 3) <= lprice <= budgetMax.
C2_Original ==
    \A p \in Returned :
       /\ Max(10000, budget_max_krw \div 3) <= p.lprice
       /\ p.lprice <= budget_max_krw

\* C2 amended: every returned product has lprice <= budgetMax; a product
\* taken from an API response also has max(10000, budgetMax // 3) <= lprice,
\* a simulated product only 0 <= lprice.
C2_BudgetRange ==
    \A p \in Returned :
       /\ p.lprice <= budget_max_krw
       /\ IF p.simulated THEN 0 <= p.lprice
          ELSE Max(10000, budget_max_krw \div 3) <= p.lprice

C2_Witness ==
    /\ spc = "done"
    /\ \E p \in Returned : ~p.simulated /\ p.lprice = 50000 /\ budget_max_krw = 150000
    /\ \E p \in Returned : ~p.simulated /\ p.lprice = budget_max_krw
    /\ \E p \in Returned : p.simulated /\ p.lprice < 50000

\* C4: no two products of the list search_products_multi_sort returns share
\* a productId, and no two share a product signature.
C4_UniqueIdAndSignature ==
    \A i, j \in 1..Len(result) :
       i # j => /\ result[i].productId # result[j].productId
                /\ CreateProductSignature(result[i]) # CreateProductSignature(result[j])

\* 2 distinct records and 1 record with the signature of one of them under
\* another productId came in; 2 products are returned
C4_Witness ==
    /\ spc = "done"
    /\ enabled
    /\ Len(all_products) = 3
    /\ Len(result) = 2
    /\ Cardinality({ all_products[i].productId : i \in 1..3 }) = 3
    /\ Cardinality({ CreateProductSignature(all_products[i]) : i \in 1..3 }) = 2

\* C6: at most 3 products of the returned list have the same
\* (brand, category3) pair.
C6_DiversityCap ==
    \A k \in 1..Len(result) :
       Cardinality({ i \in 1..Len(result) :
                       /\ result[i].brand = result[k].brand
                       /\ result[i].category3 = result[k].category3 }) <= 3

\* 4 products of one brand and category with different ids and signatures
\* were collected, 3 of them are returned
C6_Witness ==
    /\ spc = "done"
    /\ enabled
    /\ Len(all_products) = 4
    /\ Cardinality({ all_products[i].productId : i \in 1..4 }) = 4
    /\ Cardinality({ CreateProductSignature(all_products[i]) : i \in 1..4 }) = 4
    /\ Cardinality({ BrandCategoryKey(all_products[i]) : i \in 1..4 }) = 1
    /\ Len(result) = 3

\* C7: the quality_score of every returned product that carries one lies
\* in [0.0, 1.0], the bonus of the relevance sort included.
C7_QualityScoreInUnitRange ==
    \A i \in 1..Len(result) :
       result[i].quality_score # None =>
          0 <= result[i].quality_score /\ result[i].quality_score <= 1000

----------------------------------------------------------------------------
(* Properties of the resolution pipeline *)

\* the positions of the returned recommendations that are bound to a product
BoundPositions ==
    { i \in 1..Len(enhanced_recommendations) :
        enhanced_recommendations[i].purchase_link # "None" }

\* C3: in the list _smart_integrate_recommendations returns, no two
\* recommendations bound to a product carry the same purchase_link
C3_UniquePurchaseLinks ==
    gpc = "done" =>
      \A i, j \in BoundPositions :
        i # j => enhanced_recommendations[i].purchase_link
                   # enhanced_recommendations[j].purchase_link

\* the products of the response that _simulate_search made: among the
\* search results or bound to a recommendation
SimulatedInResponse ==
    { p \in { all_naver_products[i] : i \in 1..Len(all_naver_products) } :
        /\ p.simulated
        /\ \/ \E k \in 1..Len(SearchResults) : SearchResults[k] = p
           \/ \E k \in BoundPositions :
                 enhanced_recommendations[k].bound_product = p.productId }

\* C12: a response that holds a product made by _simulate_search is flagged
\* as simulated (NaverProductResult and ProductSearchResult have no field
\* that tags a product, so the flag is simulation_mode), also when the
\* credentials are configured and a search call failed
C12_SimulatedFlagged ==
    (gpc \in {"done", "failed"} /\ SimulatedInResponse # {}) => SimulationMode

\* a step in which the answer of the judge is applied to the current intent
JudgedStep == gpc = "judged" /\ gpc' = "match"

\* the number of candidates shown to the judge (`naver_products[:5]`)
Presented == Min(JUDGE_CANDIDATES, Len(relevant_products))

\* the answer is the index of a candidate that was shown
IndexOfPresented ==
    gpt_result.kind = "index" /\ gpt_result.val \in 0..(Presented - 1)

\* the recommendation made for the intent last processed
LastRecommendation == enhanced_recommendations[Len(enhanced_recommendations)]

\* the productId of candidate k (0-based) of relevant_products
CandidateId(k) == all_naver_products[relevant_products[k + 1]].productId

\* C13: when the judge answers with the index k of a candidate that was
\* shown, the intent is bound to exactly candidate k (and k is consumed);
\* when it answers NONE in any letter case, the intent is left unmatched and
\* nothing is added to the consumed set
C13_JudgeDecisionHonoured ==
    [][ JudgedStep =>
          /\ IndexOfPresented =>
                /\ LastRecommendation'.bound_product = CandidateId(gpt_result.val)
                /\ used_product_ids'
                     = used_product_ids \cup {CandidateId(gpt_result.val)}
          /\ SaysNone(gpt_result) =>
                /\ LastRecommendation'.bound_product = "None"
                /\ LastRecommendation'.purchase_link = "None"
                /\ used_product_ids' = used_product_ids ]_vars

\* the judge answers "none" for the first intent, which is left unmatched,
\* and the index 1 for the second, which has several candidates
C13_Witness ==
    /\ gpc = "judged"
    /\ gpt_result = JudgeIndex(1)
    /\ Len(relevant_products) >= 2
    /\ Len(enhanced_recommendations) = 1
    /\ enhanced_recommendations[1].bound_product = "None"
    /\ used_product_ids = {}

\* the product _select_best_matching_product selects for the current intent
HeuristicId ==
    all_naver_products[
      SelectBestMatchingProduct(all_naver_products, relevant_products,
                                IntegrationBudget(request),
                                ai_recommendations[intent_idx + 1].title)].productId

\* C14: when the judge's answer is neither NONE nor the index of one of the
\* at most 5 candidates shown (not a number, negative, an index beyond those
\* shown), or the judge call fails, the product of the heuristic matcher is
\* bound; an index of the judge never binds a candidate that was not shown
C14_InvalidAnswerFallsBack ==
    [][ (JudgedStep /\ ~SaysNone(gpt_result) /\ ~IndexOfPresented) =>
          LastRecommendation'.bound_product = HeuristicId ]_vars

\* the signature without the brand in front of it
SignatureBody(p) ==
    IF p.brand # "" THEN Tail(CreateProductSignature(p))
    ELSE CreateProductSignature(p)

\* the positions of the first 5 words of title t that satisfy Keeps
FirstFivePositions(t, Keeps(_)) ==
    LET Q == { i \in 1..Len(t) : Keeps(t[i]) }
    IN  { i \in Q : Cardinality({ j \in Q : j < i }) < 5 }

\* the body of the signature of p is made of the words at positions kept,
\* in sorted order (no title of the model has a word twice)
BodyIsSorted(p, kept) ==
    LET body == SignatureBody(p)
    IN  IF kept = {} THEN body \in { <<>>, <<"">> }
        ELSE /\ Len(body) = Cardinality(kept)
             /\ { body[i] : i \in 1..Len(body) } = { p.title[i] : i \in kept }
             /\ \A i, j \in 1..Len(body) :
                  i < j => Word[body[i]].rank < Word[body[j]].rank

\* the signature starts with the normalized brand, if the product has one
BrandInFront(p) ==
    p.brand # "" => CreateProductSignature(p)[1] = BrandLower(p.brand)

\* products with the same title and brand have the same signature
SameTitleAndBrandSameSignature ==
    \A i, j \in 1..Len(all_products) :
      (all_products[i].title = all_products[j].title
       /\ all_products[i].brand = all_products[j].brand)
        => CreateProductSignature(all_products[i])
             = CreateProductSignature(all_products[j])

NotStopWord(w) == ~Word[w].stop

LongAndNotStopWord(w) == Word[w].core >= 3 /\ ~Word[w].stop

\* C18 as stated: the signature is the normalized brand (when present) and
\* the sorted first <= 5 words of the title that remain after lowercasing,
\* stripping markup and punctuation and removing the stop words; it depends
\* on title and brand only
C18_Original ==
    /\ \A k \in 1..Len(all_products) :
         /\ BrandInFront(all_products[k])
         /\ BodyIsSorted(all_products[k],
                         FirstFivePositions(all_products[k].title, NotStopWord))
    /\ SameTitleAndBrandSameSignature

\* C18 amended: the signature is the normalized brand (when present) and
\* the sorted first <= 5 of the words of the title that, after lowercasing
\* and stripping markup and punctuation, have at least 3 characters and are
\* no stop words; it depends on title and brand only
C18_SignatureOfLongWords ==
    /\ \A k \in 1..Len(all_products) :
         /\ BrandInFront(all_products[k])
         /\ BodyIsSorted(all_products[k],
                         FirstFivePositions(all_products[k].title,
                                            LongAndNotStopWord))
    /\ SameTitleAndBrandSameSignature

\* two listings of a branded title with a stop word, a word of 2 characters
\* and six longer words were collected, and the second was dropped for its
\* signature
C18_Witness ==
    /\ spc = "done"
    /\ Len(all_products) = 2
    /\ Len(result) = 1
    /\ all_products[1].brand = "Samsung"
    /\ \E i \in 1..Len(all_products[1].title) : Word[all_products[1].title[i]].stop
    /\ \E i \in 1..Len(all_products[1].title) :
         /\ ~Word[all_products[1].title[i]].stop
         /\ Word[all_products[1].title[i]].core < 3
    /\ Cardinality({ i \in 1..Len(all_products[1].title) :
                       LongAndNotStopWord(all_products[1].title[i]) }) > 5
    /\ Len(SignatureBody(all_products[1])) = 5

\* the title of the intent whose keywords are extracted
IntentTitle == ai_recommendations[1].title

\* C15: for an intent made of a modifier and a core noun (프리미엄 주방용품)
\* keyword extraction followed by _optimize_search_query gives the core
\* noun's term as the query, never the modifier or one of its synonyms
C15_CoreNounIsQuery ==
    (/\ query # ""
     /\ Len(IntentTitle) = 2
     /\ IntentTitle[1] \in ModifierWords
     /\ IntentTitle[2] \in PriorityProductWords)
      => query = NaverOptimizedPattern(IntentTitle[2])

\* C16: _smart_integrate_recommendations leaves every intent it was given
\* unchanged (estimated price, currency), whether the intent is bound or
\* left unmatched and whatever its currency
C16_IntentsUnchanged ==
    [][ (gpc \in {"match", "judging", "judged"}) =>
          (ai_recommendations' = ai_recommendations) ]_vars

\* C17: called with n >= 1 intents, _smart_integrate_recommendations returns
\* exactly min(n, 3) recommendations, and the i-th of them is derived from
\* the i-th intent: it has the intent's category and its description starts
\* with the intent's description, whether or not a product was bound
C17_OnePerIntentInOrder ==
    (gpc \in {"done", "failed"} /\ ai_recommendations # <<>>) =>
      /\ Len(enhanced_recommendations) = Min(Len(ai_recommendations), 3)
      /\ \A i \in 1..Len(enhanced_recommendations) :
           /\ enhanced_recommendations[i].category = ai_recommendations[i].category
           /\ Len(enhanced_recommendations[i].description)
                >= Len(ai_recommendations[i].description)
           /\ SubSeq(enhanced_recommendations[i].description, 1,
                     Len(ai_recommendations[i].description))
                = ai_recommendations[i].description

\* the keywords found for the intent, before duplicates are removed
FoundKeywords ==
    TitleKeywords(IntentTitle) \o CategoryKeywords(ai_recommendations[1].category)

\* the position at which w occurs first in seq
FirstOccurrence(seq, w) ==
    CHOOSE i \in 1..Len(seq) :
      seq[i] = w /\ \A j \in 1..(i - 1) : seq[j] # w

\* C19: for every title and category of an intent,
\* _extract_search_keywords_from_ai_rec returns a list that is not empty, has
\* at most 4 keywords and no keyword twice, in the order in which the
\* keywords were found first
C19_KeywordsBoundedAndDistinct ==
    spc # "idle" =>
      /\ Len(keywords) \in 1..4
      /\ \A i, j \in 1..Len(keywords) : i # j => keywords[i] # keywords[j]
      /\ FoundKeywords = <<>> => keywords = <<"seonmul">>
      /\ FoundKeywords # <<>> =>
           /\ \A i \in 1..Len(keywords) :
                \E k \in 1..Len(FoundKeywords) : FoundKeywords[k] = keywords[i]
           /\ \A i, j \in 1..Len(keywords) :
                i < j => FirstOccurrence(FoundKeywords, keywords[i])
                           < FirstOccurrence(FoundKeywords, keywords[j])
           /\ \A k \in 1..Len(FoundKeywords) :
                (\E j \in 1..Len(keywords) :
                   k < FirstOccurrence(FoundKeywords, keywords[j]))
                  => \E i \in 1..Len(keywords) : keywords[i] = FoundKeywords[k]

\* the title has one word twice: the keywords hold it once, before the
\* keywords of the category
C19_Witness ==
    /\ spc # "idle"
    /\ IntentTitle = <<"hedeuset", "hedeuset">>
    /\ keywords = <<"hedeuset", "jeonjagigi", "dijiteol">>

\* the calls that are issued in a step
Issued == in_flight' \ in_flight

\* the calls issued so far
CallsMade == in_flight \cup returned

\* the position of a sort order in sort_methods
SortPosition(sort) == CHOOSE k \in 1..Len(sort_methods) : sort_methods[k] = sort

\* C20 as stated: at most one outbound call is in flight at any time; the
\* three requests of one search are issued one after another, and the
\* search requests and the judge call for intent i+1 start only after those
\* for intent i have returned
C20_Original ==
    [][ \A c \in Issued :
          /\ in_flight = {}
          /\ Issued = {c}
          /\ c.kind = "search" =>
                \A k \in 1..(SortPosition(c.sort) - 1) :
                  SearchCall(c.intent, k) \in returned
          /\ \A d \in CallsMade : d.intent <= c.intent ]_vars

\* C20 amended: at most one outbound call is in flight at any time; the
\* three requests of one search are issued one after another; the search
\* requests for intent i+1 start only after those for intent i have
\* returned; the judge calls start only after the search requests for every
\* intent have returned (without credentials no search request is made),
\* and the judge call for intent i+1 only after the one for intent i
C20_SearchesThenJudgeCalls ==
    [][ \A c \in Issued :
          /\ in_flight = {}
          /\ Issued = {c}
          /\ c.kind = "search" =>
                /\ \A k \in 1..(SortPosition(c.sort) - 1) :
                     SearchCall(c.intent, k) \in returned
                /\ \A d \in CallsMade : d.kind = "search" /\ d.intent <= c.intent
                /\ \A i \in 0..(c.intent - 1), k \in 1..Len(sort_methods) :
                     SearchCall(i, k) \in returned
          /\ c.kind = "judge" =>
                /\ \A d \in CallsMade : d.kind = "judge" => d.intent < c.intent
                /\ enabled =>
                     \A i \in 0..(NumIntents - 1), k \in 1..Len(sort_methods) :
                       SearchCall(i, k) \in returned ]_vars

\* the six search requests of two intents and the judge call for the first
\* intent have returned, and the judge call for the second is awaited
C20_Witness ==
    /\ in_flight = {JudgeCall(1)}
    /\ returned = { SearchCall(i, k) : i \in 0..1, k \in 1..Len(sort_methods) }
                     \cup {JudgeCall(0)}

\* C5 as stated: the pool merged from the searches of all intents holds no
\* two products with the same productId or the same signature
C5_Original ==
    \A i, j \in 1..Len(all_naver_products) :
      i # j =>
        /\ all_naver_products[i].productId # all_naver_products[j].productId
        /\ CreateProductSignature(all_naver_products[i])
             # CreateProductSignature(all_naver_products[j])

\* C5 amended: no two products of the pool that were found for the same
\* intent have the same productId or the same signature
C5_UniquePerIntent ==
    \A i, j \in 1..Len(all_naver_products) :
      (i # j /\ all_naver_products[i].ai_recommendation_index
                  = all_naver_products[j].ai_recommendation_index) =>
        /\ all_naver_products[i].productId # all_naver_products[j].productId
        /\ CreateProductSignature(all_naver_products[i])
             # CreateProductSignature(all_naver_products[j])

\* a pool, built from calls that answered, with two products of one intent
\* and one productId found for two intents
C5_Witness ==
    /\ enabled
    /\ \E i, j \in 1..Len(all_naver_products) :
         /\ i # j
         /\ ~all_naver_products[i].simulated
         /\ ~all_naver_products[j].simulated
         /\ all_naver_products[i].ai_recommendation_index
              = all_naver_products[j].ai_recommendation_index
    /\ \E i, j \in 1..Len(all_naver_products) :
         /\ all_naver_products[i].ai_recommendation_index
              # all_naver_products[j].ai_recommendation_index
         /\ all_naver_products[i].productId = all_naver_products[j].productId

----------------------------------------------------------------------------
(* Properties of the retry loop over the commerce search *)

\* the last recorded attempt is the one whose search result is in `result`
LastSearchRecorded ==
    /\ search_calls # <<>>
    /\ session.attempts # <<>>
    /\ session.attempts[Len(session.attempts)].attempt_number
         = search_calls[Len(search_calls)]

\* with credentials, a product of _simulate_search among the collected ones
\* means that a search_products call met a status other than 200 or an exception
TransportFailed ==
    /\ enabled
    /\ \E i \in 1..Len(all_products) : all_products[i].simulated

LastAttempt == session.attempts[Len(session.attempts)]

\* C11 as stated: when a commerce-search call of attempt k fails at transport
\* level, attempt k is recorded as failed and the controller goes on to
\* attempt k+1
C11_Original ==
    (LastSearchRecorded /\ TransportFailed) =>
       /\ ~LastAttempt.success
       /\ LastAttempt.attempt_number < MAX_RETRY_ATTEMPTS => rpc # "finish"

\* C11 amended: a transport failure of a commerce-search call does not fail
\* the attempt; the call is answered with simulated products, so the attempt
\* is recorded without failure_reason, with the number of products the search
\* returned (at least one), and counts as a success iff that number is >= 3
C11_TransportFailureMasked ==
    (LastSearchRecorded /\ TransportFailed) =>
       /\ LastAttempt.failure_reason = "None"
       /\ LastAttempt.products_found = Len(result)
       /\ LastAttempt.products_found >= 1
       /\ LastAttempt.success = (LastAttempt.products_found >= MIN_PRODUCTS_THRESHOLD)

\* attempt 2 met a failing call after attempt 1 had found too little; it is
\* recorded as a success and the loop has ended
C11_Witness ==
    /\ LastSearchRecorded
    /\ TransportFailed
    /\ LastAttempt.attempt_number = 2
    /\ LastAttempt.success
    /\ rpc = "returned"
    /\ \E i \in 1..Len(best_products) : best_products[i].simulated

----------------------------------------------------------------------------
(* Properties of the keywords of an attempt *)

\* the entries of `merged` behind the current keywords
AddedKeywords(current, merged) ==
    [i \in 1..(Len(merged) - Len(current)) |-> merged[Len(current) + i]]

\* `merged` is `current`, cut to 5, followed by at most 2 of the first two
\* suggested products and at most 1 trending keyword, each of them new
MergedFrom(current, merged, insights) ==
    LET added == AddedKeywords(current, merged)
        products == Range(FirstN(insights.suggested_products, 2))
        trending == Range(FirstN(insights.trending_keywords, 1))
    IN  /\ Len(merged) <= 5
        /\ Len(merged) >= Min(Len(current), 5)
        /\ \A i \in 1..Min(Len(current), Len(merged)) : merged[i] = current[i]
        /\ \A i \in DOMAIN added :
              /\ added[i] \in products \cup trending
              /\ added[i] \notin Range(current)
              /\ \A j \in DOMAIN added : j # i => added[j] # added[i]
        /\ Cardinality({ i \in DOMAIN added : added[i] \in products }) <= 2
        /\ Cardinality({ i \in DOMAIN added : added[i] \in trending }) <= 1

\* C26: the merge of the market insights returns at most 5 keywords that
\* start with the current keywords in order, adds at most 2 suggested
\* products and at most 1 trending keyword, none of them present before, and
\* takes place only in attempt 3, the attempt of market_research; in every
\* other attempt the keywords pass step 2 unchanged.
C26_MarketMerge ==
    [][ (rpc = "insights") =>
          IF market_insights'.present
          THEN /\ attempt_num = 3
               /\ StrategyOf(attempt_num) = "market_research"
               /\ MergedFrom(refined_keywords, refined_keywords', market_insights')
          ELSE refined_keywords' = refined_keywords ]_vars

\* attempt 3 is about to search: one suggested product was in the keywords
\* already, the other one and the trending keyword were added
C26_Witness ==
    /\ rpc = "search"
    /\ attempt_num = 3
    /\ market_insights.present
    /\ market_insights.suggested_products[1] = "museonieopon"
    /\ refined_keywords = <<"museonieopon", "seonmul", "noteubuk", "ingi">>

----------------------------------------------------------------------------
(* Properties of _process_search_results *)

\* the record is one the claim lets through: a numeric low price within the
\* budget and a title that passes the quality filter
WellPricedAndTitled(item) ==
    /\ item.shape = "object"
    /\ item.lprice.kind = "num"
    /\ InBudget(item.lprice.val, budget_max_krw)
    /\ ~IsLowQualityProduct(item.title)

\* the positions of data["items"] that hold such records
PositionsKept ==
    LET Keep(i) == WellPricedAndTitled(data_items[i])
    IN  SelectSeq([i \in 1..Len(data_items) |-> i], Keep)

\* C27: _process_search_results drops a record only for an empty or
\* non-numeric low price, a price out of budget or a title that fails the
\* quality filter; a malformed record neither makes the call raise nor costs
\* another record; a missing or non-numeric high price becomes the low price
\* and a malformed product type becomes 1.
C27_MalformedRecordsIsolated ==
    (spc \in {"processed", "raised"}) =>
       /\ spc = "processed"
       /\ Len(result) = Len(PositionsKept)
       /\ \A j \in 1..Min(Len(result), Len(PositionsKept)) :
             LET item == data_items[PositionsKept[j]]
             IN  /\ result[j].productId = item.productId
                 /\ result[j].lprice = item.lprice.val
                 /\ result[j].hprice = (IF item.hprice.kind = "num"
                                        THEN item.hprice.val ELSE item.lprice.val)
                 /\ result[j].productType = (IF item.productType.kind = "num"
                                             THEN item.productType.val ELSE 1)

----------------------------------------------------------------------------
(* Properties of the matching of intents and products *)

\* the candidates of the current intent, as pool indices: those shown to the
\* judge, or those the loop hands to the matcher
OfferedCandidates ==
    IF gpc \in {"judging", "judged"} THEN relevant_products
    ELSE Candidates(all_naver_products, intent_idx, IntegrationBudget(request),
                    used_product_ids)

\* the step appends a recommendation that is bound to a product
BindStep ==
    /\ gpc \in {"match", "judged"}
    /\ Len(enhanced_recommendations') = Len(enhanced_recommendations) + 1
    /\ LastRecommendation'.bound_product # "None"

\* C28: a recommendation bound to a product has the product's lprice as
\* price, KRW as currency, the product's link and image, a description that
\* starts with the intent's, and the confidence min(intent confidence + bonus,
\* 1.0), which lies in [0, 1] and is not below the intent's.
C28_BoundRecommendation ==
    [][ BindStep =>
          LET ai_rec == ai_recommendations[intent_idx + 1]
              rec == LastRecommendation'
          IN  \E k \in Range(OfferedCandidates) :
                 LET product == all_naver_products[k]
                 IN  /\ rec.bound_product = product.productId
                     /\ rec.estimated_price = product.lprice
                     /\ rec.currency = "KRW"
                     /\ rec.purchase_link = product.link
                     /\ rec.image_url = product.image
                     /\ Len(rec.description) >= Len(ai_rec.description)
                     /\ SubSeq(rec.description, 1, Len(ai_rec.description))
                          = ai_rec.description
                     /\ rec.confidence_score
                          = Min(ai_rec.confidence_score + CONFIDENCE_BONUS, 1000)
                     /\ rec.confidence_score \in 0..1000
                     /\ rec.confidence_score >= ai_rec.confidence_score ]_vars

\* two intents are bound, one with the confidence capped at 1.0 and one below
C28_Witness ==
    /\ gpc = "done"
    /\ \E i, j \in 1..Len(enhanced_recommendations) :
          /\ enhanced_recommendations[i].bound_product # "None"
          /\ enhanced_recommendations[i].confidence_score = 1000
          /\ enhanced_recommendations[j].bound_product # "None"
          /\ enhanced_recommendations[j].confidence_score = 950

\* the productIds the recommendations made so far are bound to
BoundIds ==
    { enhanced_recommendations[i].bound_product :
        i \in 1..Len(enhanced_recommendations) } \ {"None"}

\* C30: no two recommendations of one integration are bound to the same
\* productId, and no product bound to an earlier intent is among the
\* candidates of a later intent, for the judge or for the heuristic matcher.
C30_NoProductTwice ==
    /\ \A i, j \in 1..Len(enhanced_recommendations) :
          (i # j /\ enhanced_recommendations[i].bound_product # "None")
          => enhanced_recommendations[i].bound_product
               # enhanced_recommendations[j].bound_product
    /\ (gpc \in {"match", "judging", "judged"} /\ intent_idx < NumIntents)
       => \A k \in Range(OfferedCandidates) :
             all_naver_products[k].productId \notin BoundIds

\* the second intent is up; a product found for it was bound to the first
C30_Witness ==
    /\ gpc = "match"
    /\ intent_idx = 1
    /\ BoundIds # {}
    /\ \E k \in 1..Len(all_naver_products) :
          /\ all_naver_products[k].ai_recommendation_index = intent_idx
          /\ all_naver_products[k].productId \in BoundIds
    /\ OfferedCandidates # <<>>

\* the step in which _select_best_matching_product is called
HeuristicStep ==
    \/ /\ gpc = "match"
       /\ gpc' # "judging"
       /\ intent_idx < NumIntents
       /\ OfferedCandidates # <<>>
    \/ /\ gpc = "judged"
       /\ UsesHeuristic(relevant_products, gpt_result)

\* 0.3 * price proximity + 0.7 * lexical overlap of candidate k, up to the
\* factor all candidates share
ScoreOf(k) ==
    MatchScore(all_naver_products[k], IntegrationBudget(request) \div 2,
               ai_recommendations[intent_idx + 1].title)

\* the first position of `cands` whose score no candidate exceeds
FirstBest(cands) ==
    CHOOSE a \in 1..Len(cands) :
       /\ \A b \in 1..Len(cands) : ScoreOf(cands[b]) <= ScoreOf(cands[a])
       /\ \A b \in 1..(a - 1) : ScoreOf(cands[b]) < ScoreOf(cands[a])

\* C24: for every non-empty candidate list _select_best_matching_product
\* returns the first candidate, in list order, that attains the maximum of
\* 0.3 * price proximity + 0.7 * lexical overlap over all candidates; it
\* always returns a product.
C24_FirstBestSelected ==
    [][ HeuristicStep =>
          /\ gpc' # "failed"
          /\ LastRecommendation'.bound_product
               = all_naver_products[OfferedCandidates[FirstBest(OfferedCandidates)]]
                   .productId ]_vars

----------------------------------------------------------------------------
(* Properties of the order of the candidates *)

\* the searches have returned: the pool holds, for each intent searched, the
\* list search_products_multi_sort returned, tagged with the intent
PoolBuilt == gpc \in {"search", "match", "judging", "judged", "done"}

\* every product of the pool carries a quality score
AllScored ==
    \A k \in 1..Len(all_naver_products) :
       all_naver_products[k].quality_score # None

\* the list returned for each intent is in non-increasing order of score
SortedPerIntent ==
    \A a, b \in 1..Len(all_naver_products) :
       (/\ a < b
        /\ all_naver_products[a].ai_recommendation_index
             = all_naver_products[b].ai_recommendation_index)
       => all_naver_products[a].quality_score >= all_naver_products[b].quality_score

\* no candidate behind the first 5 has a higher score than one of the 5 shown
ShownAreHighest ==
    \A a \in 1..Min(JUDGE_CANDIDATES, Len(relevant_products)) :
       \A b \in (JUDGE_CANDIDATES + 1)..Len(relevant_products) :
          all_naver_products[relevant_products[a]].quality_score
            >= all_naver_products[relevant_products[b]].quality_score

\* C25 as stated: in every mode the list search_products_multi_sort returns
\* is in non-increasing order of quality_score and every product carries a
\* score, so the 5 candidates shown to the judge are the 5 highest-scored
C25_Original ==
    PoolBuilt =>
       /\ AllScored
       /\ SortedPerIntent
       /\ (gpc = "judging" => ShownAreHighest)

\* C25 amended: with credentials the list search_products_multi_sort returns
\* is in non-increasing order of quality_score and every product carries a
\* score (also the simulated products that stand in for a failed call), so the
\* 5 candidates shown to the judge are the 5 highest-scored; without
\* credentials the list is the one _simulate_search made, in the order of
\* generation and without scores, and a product gets a score only when it
\* is shown to the judge
C25_SortedWhenEnabled ==
    PoolBuilt =>
       /\ enabled => /\ AllScored
                     /\ SortedPerIntent
                     /\ (gpc = "judging" => ShownAreHighest)
       /\ ~enabled =>
             /\ \A k \in 1..Len(all_naver_products) :
                   all_naver_products[k].simulated
             /\ gpc = "search" =>
                   \A k \in 1..Len(all_naver_products) :
                      all_naver_products[k].quality_score = None
             /\ \A a, b \in 1..Len(all_naver_products) :
                   (/\ a < b
                    /\ all_naver_products[a].ai_recommendation_index
                         = all_naver_products[b].ai_recommendation_index)
                   => all_naver_products[a].lprice <= all_naver_products[b].lprice

\* with credentials, six candidates of different scores are up for the judge
C25_Witness ==
    /\ enabled
    /\ gpc = "judging"
    /\ Len(relevant_products) > JUDGE_CANDIDATES
    /\ all_naver_products[relevant_products[1]].quality_score
         > all_naver_products[relevant_products[JUDGE_CANDIDATES + 1]].quality_score
    /\ \E k \in 1..Len(all_naver_products) : all_naver_products[k].simulated

----------------------------------------------------------------------------
(* Properties of the fallback to the global pool *)

\* the loop is at an intent none of whose own products is unconsumed
FallbackCase ==
    /\ gpc = "match"
    /\ intent_idx < NumIntents
    /\ RelevantProducts(all_naver_products, intent_idx, used_product_ids) = <<>>

============================================================================
